------------------------------ MODULE Spec2Model ------------------------------
(***************************************************************************)
(* A model of the yEnc encoder and decoder (src/src/encode.rs,             *)
(* src/src/decode.rs, src/src/header.rs, src/src/consts.rs).               *)
(*                                                                         *)
(* Streams, lines and file names are sequences of octets (0..255).         *)
(* Option<T> is a sequence: <<>> is None and <<v>> is Some(v).             *)
(* A u32 checksum is the sequence of its 8 hexadecimal digits, most        *)
(* significant first (each 0..15), so that all 2^32 values are in reach.   *)
(***************************************************************************)
EXTENDS Integers, Sequences, FiniteSets, TLC

VARIABLES
    phase,      \* position of the caller: "input", "encoded", "altered",
                \* "decoding", "done", "assembled"
    file,       \* the original file
    assembled,  \* the decoded parts put together so far
    data,       \* the raw bytes handed to the encoder: the file or a part of it
    enc,        \* the encoder call: configuration, arguments and its Result
    stream,     \* the bytes handed to the decoder (the encoder's writer, possibly altered)
    cfg,        \* the Decoder: [strict, validate_crc]
    d,          \* the locals of Decoder::decode and its Result
    sink        \* the decoder's writer

vars == <<phase, file, assembled, data, enc, stream, cfg, d, sink>>

-----------------------------------------------------------------------------
(* Bounds of the model *)

\* longest raw input over the critical alphabet
MaxLen == 2

\* longest hand-written body text
MaxBody == 3

\* largest size a hand-written control line declares
MaxSize == 2

\* longest run of whitespace put before or after a control line
MaxPad == 1

\* longest filename built out of the name alphabet
MaxName == 3

\* most lines put before the begin line
MaxPrefix == 2

-----------------------------------------------------------------------------
(* consts.rs *)

OFFSET == 42
ESCAPE_OFFSET == 64
ESCAPE_CHAR == 61
LINE_LENGTH == 128
ESCAPING_CHARS == <<0, 9, 10, 13, 32, 46, 61>>

-----------------------------------------------------------------------------
(* Option, slices and text *)

None == <<>>
Some(v) == <<v>>
IsSome(o) == o # <<>>
Unwrap(o) == o[1]

Range(s) == {s[i] : i \in DOMAIN s}

\* s[from..] of Rust: the elements after the first n
Drop(s, n) == SubSeq(s, n + 1, Len(s))

\* slice::starts_with
StartsWith(s, prefix) ==
    /\ Len(s) >= Len(prefix)
    /\ SubSeq(s, 1, Len(prefix)) = prefix

\* "=ybegin ", "=ypart ", "=yend " and the newline writeln! appends
YBEGIN == <<61, 121, 98, 101, 103, 105, 110, 32>>
YPART == <<61, 121, 112, 97, 114, 116, 32>>
YEND == <<61, 121, 101, 110, 100, 32>>
NL == <<10>>

\* the keys of the control lines, and the literals of the format strings
K_name == <<110, 97, 109, 101>>
K_size == <<115, 105, 122, 101>>
K_line == <<108, 105, 110, 101>>
K_part == <<112, 97, 114, 116>>
K_total == <<116, 111, 116, 97, 108>>
K_begin == <<98, 101, 103, 105, 110>>
K_end == <<101, 110, 100>>
K_pcrc32 == <<112, 99, 114, 99, 51, 50>>
K_crc32 == <<99, 114, 99, 51, 50>>
EQ == <<61>>
SP == <<32>>

\* format!("{}", n) of a usize: decimal, no padding
RECURSIVE ToDec(_)
ToDec(n) ==
    IF n < 10 THEN <<48 + n>> ELSE ToDec(n \div 10) \o <<48 + (n % 10)>>

\* format!("{:08x}", crc): one lowercase hexadecimal digit per nibble
HexDigit(n) == IF n < 10 THEN 48 + n ELSE 87 + n
ToHex8(crc) == [i \in 1..8 |-> HexDigit(crc[i])]

IsDigit(c) == c >= 48 /\ c <= 57

\* a digit value that knows the lower-case letters only
HexValue_lower_only(c) ==
    IF c >= 48 /\ c <= 57 THEN c - 48
    ELSE IF c >= 97 /\ c <= 102 THEN c - 87
    ELSE -1

\* char::to_digit(16): the value of a hexadecimal digit in either case, -1 if none
HexValue(c) ==
    IF c >= 48 /\ c <= 57 THEN c - 48
    ELSE IF c >= 97 /\ c <= 102 THEN c - 87
    ELSE IF c >= 65 /\ c <= 70 THEN c - 55
    ELSE -1

RECURSIVE DecValue(_)
DecValue(s) ==
    IF s = <<>> THEN 0 ELSE 10 * DecValue(SubSeq(s, 1, Len(s) - 1)) + (s[Len(s)] - 48)

RECURSIVE StripZeros(_)
StripZeros(s) ==
    IF s # <<>> /\ s[1] = 48 THEN StripZeros(Tail(s)) ELSE s

\* the digits of a number literal: one leading '+' is accepted by from_str_radix
NumBody(s) == IF s # <<>> /\ s[1] = 43 THEN Tail(s) ELSE s

\* str::parse::<usize>().ok(): a literal of more than 20 significant digits
\* exceeds 2^64 - 1
ParseUsize(s) ==
    LET b == NumBody(s) IN
    IF b = <<>> \/ \E i \in DOMAIN b : ~IsDigit(b[i]) THEN None
    ELSE IF Len(StripZeros(b)) > 20 THEN None
    ELSE Some(DecValue(StripZeros(b)))

\* u32::from_str_radix(value, 16).ok(): more than 8 significant digits overflow
ParseHex32(s) ==
    LET b == NumBody(s)
        z == StripZeros(b)
    IN
    IF b = <<>> \/ \E i \in DOMAIN b : HexValue(b[i]) < 0 THEN None
    ELSE IF Len(z) > 8 THEN None
    ELSE Some([i \in 1..8 |-> IF i <= 8 - Len(z) THEN 0 ELSE HexValue(z[i - (8 - Len(z))])])

-----------------------------------------------------------------------------
(* crc32fast::Hasher: CRC-32 (IEEE), reflected polynomial EDB88320, computed *)
(* four bits at a time; a value is its 8 hexadecimal digits                 *)

XorNib(a, b) ==
      ((a + b) % 2)
    + 2 * (((a \div 2) + (b \div 2)) % 2)
    + 4 * (((a \div 4) + (b \div 4)) % 2)
    + 8 * (((a \div 8) + (b \div 8)) % 2)

Xor32(x, y) == [i \in 1..8 |-> XorNib(x[i], y[i])]

CrcTable ==
    << <<0, 0, 0, 0, 0, 0, 0, 0>>,     <<1, 13, 11, 7, 1, 0, 6, 4>>,
       <<3, 11, 6, 14, 2, 0, 12, 8>>,  <<2, 6, 13, 9, 3, 0, 10, 12>>,
       <<7, 6, 13, 12, 4, 1, 9, 0>>,   <<6, 11, 6, 11, 5, 1, 15, 4>>,
       <<4, 13, 11, 2, 6, 1, 5, 8>>,   <<5, 0, 0, 5, 7, 1, 3, 12>>,
       <<14, 13, 11, 8, 8, 3, 2, 0>>,  <<15, 0, 0, 15, 9, 3, 4, 4>>,
       <<13, 6, 13, 6, 10, 3, 14, 8>>, <<12, 11, 6, 1, 11, 3, 8, 12>>,
       <<9, 11, 6, 4, 12, 2, 11, 0>>,  <<8, 6, 13, 3, 13, 2, 13, 4>>,
       <<10, 0, 0, 10, 14, 2, 7, 8>>,  <<11, 13, 11, 13, 15, 2, 1, 12>> >>

AllOnes == <<15, 15, 15, 15, 15, 15, 15, 15>>

\* crc := (crc >> 4) ^ table[crc & 15]
CrcNibble(crc) == Xor32(<<0>> \o SubSeq(crc, 1, 7), CrcTable[crc[8] + 1])

\* Hasher::new(): the register starts at all ones
HasherNew == AllOnes

\* Hasher::update(&[byte])
HasherUpdate(h, byte) ==
    CrcNibble(CrcNibble(Xor32(h, <<0, 0, 0, 0, 0, 0, byte \div 16, byte % 16>>)))

\* Hasher::finalize()
HasherFinalize(h) == Xor32(h, AllOnes)

RECURSIVE HasherUpdateAll(_, _)
HasherUpdateAll(h, bytes) ==
    IF bytes = <<>> THEN h
    ELSE HasherUpdateAll(HasherUpdate(h, Head(bytes)), Tail(bytes))

\* the checksum of a whole buffer
Crc32(bytes) == HasherFinalize(HasherUpdateAll(HasherNew, bytes))

-----------------------------------------------------------------------------
(* Byte transform *)

\* u8 arithmetic wraps
Wrap8(n) == n % 256

encode_byte(byte) == Wrap8(byte + OFFSET)

\* a needs_escape that looks at the encoded byte only
needs_escape_encoded_only(byte, encoded) == encoded \in Range(ESCAPING_CHARS)

\* an escape decision taken on the raw byte alone
needs_escape_raw(byte, encoded) ==
    byte \in Range(ESCAPING_CHARS) \/ byte = ESCAPE_CHAR

needs_escape(byte, encoded) ==
    encoded \in Range(ESCAPING_CHARS) \/ byte = ESCAPE_CHAR

\* a decode_byte that saturates at 0 instead of wrapping
decode_byte_saturating(byte) == IF byte < OFFSET THEN 0 ELSE byte - OFFSET

decode_byte(byte) == Wrap8(byte - OFFSET)

-----------------------------------------------------------------------------
(* Lines *)

\* b" \t\r\n".contains(b)
is_ws(b) == b \in {32, 9, 13, 10}

\* iter().position(|b| !is_ws(b)) from index i on: Len(line) + 1 if none
RECURSIVE position(_, _)
position(line, i) ==
    IF i > Len(line) \/ ~is_ws(line[i]) THEN i ELSE position(line, i + 1)

\* iter().rposition(|b| !is_ws(b)) from index i down: 0 if none
RECURSIVE rposition(_, _)
rposition(line, i) ==
    IF i = 0 \/ ~is_ws(line[i]) THEN i ELSE rposition(line, i - 1)

trim_bytes(line) ==
    SubSeq(line, position(line, 1), rposition(line, Len(line)))

\* BufRead::read_until(b'\n'): the bytes from pos up to and including the
\* next newline, or up to the end of the stream; <<>> at the end
RECURSIVE LineEnd(_, _)
LineEnd(s, i) ==
    IF i >= Len(s) \/ s[i] = 10 THEN i ELSE LineEnd(s, i + 1)

ReadLine(s, pos) ==
    IF pos > Len(s) THEN <<>> ELSE SubSeq(s, pos, LineEnd(s, pos))

\* char::is_whitespace on the ASCII range (str::split_whitespace)
IsWhitespace(c) == c \in {9, 10, 11, 12, 13, 32}

\* str::split_whitespace: the maximal runs of non-whitespace
\* the first index from i on that holds whitespace (ws) or none (~ws)
RECURSIVE Scan(_, _, _)
Scan(s, i, ws) ==
    IF i > Len(s) \/ IsWhitespace(s[i]) = ws THEN i ELSE Scan(s, i + 1, ws)

RECURSIVE SplitFrom(_, _)
SplitFrom(s, i) ==
    LET a == Scan(s, i, FALSE)
        b == Scan(s, a, TRUE)
    IN IF a > Len(s) THEN <<>>
       ELSE <<SubSeq(s, a, b - 1)>> \o SplitFrom(s, b)

SplitWhitespace(s) == SplitFrom(s, 1)

\* str::split_once('='): <<>> when the token has no '=', else <<key, value>>
RECURSIVE Find(_, _, _)
Find(s, i, c) ==
    IF i > Len(s) \/ s[i] = c THEN i ELSE Find(s, i + 1, c)

SplitOnce(token) ==
    LET e == Find(token, 1, 61) IN
    IF e > Len(token) THEN <<>>
    ELSE <<SubSeq(token, 1, e - 1), Drop(token, e)>>

\* the <<key, value>> pairs of a control line after its prefix of n bytes
KeyValues(line, n) ==
    LET toks == SplitWhitespace(Drop(line, n))
        kvs == [i \in DOMAIN toks |-> SplitOnce(toks[i])]
    IN SelectSeq(kvs, LAMBDA kv : kv # <<>>)

\* std::str::from_utf8(..).is_ok()
RECURSIVE IsUtf8(_)
IsUtf8(s) ==
    LET Cont(i) == i <= Len(s) /\ s[i] >= 128 /\ s[i] <= 191 IN
    IF s = <<>> THEN TRUE
    ELSE IF s[1] < 128 THEN IsUtf8(Tail(s))
    ELSE IF s[1] >= 194 /\ s[1] <= 223 THEN Cont(2) /\ IsUtf8(Drop(s, 2))
    ELSE IF s[1] >= 224 /\ s[1] <= 239 THEN
        /\ Cont(2) /\ Cont(3)
        /\ (s[1] = 224 => s[2] >= 160)
        /\ (s[1] = 237 => s[2] <= 159)
        /\ IsUtf8(Drop(s, 3))
    ELSE IF s[1] >= 240 /\ s[1] <= 244 THEN
        /\ Cont(2) /\ Cont(3) /\ Cont(4)
        /\ (s[1] = 240 => s[2] >= 144)
        /\ (s[1] = 244 => s[2] <= 143)
        /\ IsUtf8(Drop(s, 4))
    ELSE FALSE

-----------------------------------------------------------------------------
(* error.rs: YencError, and the Result of a call *)

\* kind is "Ok", "InvalidHeader", "InvalidData", "MissingField", "CrcMismatch",
\* or "Panic" when the call aborts instead of returning; msg is the constant
\* part of the message, args the values formatted into it
Err(kind, msg, args) ==
    [kind |-> kind, msg |-> msg, args |-> args, expected |-> None, actual |-> None]

Ok == Err("Ok", "", <<>>)

Pending == Err("Pending", "", <<>>)

\* a CrcMismatch with the two values in each other's place
CrcMismatch_swapped(expected, actual) ==
    [kind |-> "CrcMismatch", msg |-> "", args |-> <<>>,
     expected |-> Some(actual), actual |-> Some(expected)]

CrcMismatch(expected, actual) ==
    [kind |-> "CrcMismatch", msg |-> "", args |-> <<>>,
     expected |-> Some(expected), actual |-> Some(actual)]

IsErr(r) == r.kind \notin {"Ok", "Pending"}

-----------------------------------------------------------------------------
(* header.rs *)

\* the value of the last token with this key, None if there is none: each
\* matching token of the loop overwrites the field
LastOf(kvs, key) ==
    LET hits == SelectSeq(kvs, LAMBDA kv : kv[1] = key) IN
    IF hits = <<>> THEN None ELSE Some(hits[Len(hits)][2])

\* field = value.parse().ok() on the last token with this key
UsizeField(kvs, key) ==
    IF LastOf(kvs, key) = None THEN None ELSE ParseUsize(Unwrap(LastOf(kvs, key)))

HexField(kvs, key) ==
    IF LastOf(kvs, key) = None THEN None ELSE ParseHex32(Unwrap(LastOf(kvs, key)))

NoHeader == [name |-> <<>>, size |-> 0, line_len |-> None, part |-> None, total |-> None]
NoPart == [begin |-> 0, end |-> 0]
NoTrailer == [size |-> 0, part |-> None, pcrc32 |-> None, crc32 |-> None]

\* YencHeader::parse: [error, value]
YencHeader_parse(line) ==
    LET kvs == KeyValues(line, 8)
        name == LastOf(kvs, K_name)
        size == UsizeField(kvs, K_size)
    IN
    IF ~StartsWith(line, YBEGIN) THEN
        [error |-> Err("InvalidHeader", "Header must start with '=ybegin'", <<>>),
         value |-> NoHeader]
    ELSE IF name = None THEN
        [error |-> Err("MissingField", "name", <<>>), value |-> NoHeader]
    ELSE IF size = None THEN
        [error |-> Err("MissingField", "size", <<>>), value |-> NoHeader]
    ELSE
        [error |-> Ok,
         value |-> [name |-> Unwrap(name), size |-> Unwrap(size),
                    line_len |-> UsizeField(kvs, K_line),
                    part |-> UsizeField(kvs, K_part),
                    total |-> UsizeField(kvs, K_total)]]

\* YencPart::parse
YencPart_parse(line) ==
    LET kvs == KeyValues(line, 7)
        begin == UsizeField(kvs, K_begin)
        end == UsizeField(kvs, K_end)
    IN
    IF ~StartsWith(line, YPART) THEN
        [error |-> Err("InvalidHeader", "Part line must start with '=ypart'", <<>>),
         value |-> NoPart]
    ELSE IF begin = None THEN
        [error |-> Err("MissingField", "begin", <<>>), value |-> NoPart]
    ELSE IF end = None THEN
        [error |-> Err("MissingField", "end", <<>>), value |-> NoPart]
    ELSE
        [error |-> Ok, value |-> [begin |-> Unwrap(begin), end |-> Unwrap(end)]]

\* YencTrailer::parse
YencTrailer_parse(line) ==
    LET kvs == KeyValues(line, 6)
        size == UsizeField(kvs, K_size)
    IN
    IF ~StartsWith(line, YEND) THEN
        [error |-> Err("InvalidHeader", "Trailer must start with '=yend'", <<>>),
         value |-> NoTrailer]
    ELSE IF size = None THEN
        [error |-> Err("MissingField", "size", <<>>), value |-> NoTrailer]
    ELSE
        [error |-> Ok,
         value |-> [size |-> Unwrap(size),
                    part |-> UsizeField(kvs, K_part),
                    pcrc32 |-> HexField(kvs, K_pcrc32),
                    crc32 |-> HexField(kvs, K_crc32)]]

\* end - begin + 1 on usize. With end < begin the subtraction overflows: a
\* build with overflow checks panics (None), one without wraps modulo 2^64.
\* The wrapped value is 0 for end = begin - 1; below that it is
\* 2^64 + (end - begin + 1), written here as the negative number
\* end - begin + 1, which like it equals no size the model parses.
SpanSize(begin, end, overflow_checks) ==
    IF end >= begin THEN Some(end - begin + 1)
    ELSE IF overflow_checks THEN None
    ELSE Some(end - begin + 1)

\* a span that leaves out its last position: end - begin
YencPart_size_exclusive(part, overflow_checks) ==
    IF part.end >= part.begin THEN Some(part.end - part.begin)
    ELSE SpanSize(part.begin, part.end, overflow_checks)

\* YencPart::size
YencPart_size(part, overflow_checks) == SpanSize(part.begin, part.end, overflow_checks)

-----------------------------------------------------------------------------
(* encode.rs *)

\* MultiPartInfo::expected_size
MultiPartInfo_expected_size(info, overflow_checks) ==
    SpanSize(info.begin, info.end, overflow_checks)

\* an escape pair whose second byte is not shifted by ESCAPE_OFFSET
EncodeOne_unshifted(byte) ==
    LET encoded == encode_byte(byte) IN
    IF needs_escape(byte, encoded) THEN <<ESCAPE_CHAR, encoded>> ELSE <<encoded>>

\* what the loop writes for one byte: an escape pair or the encoded byte
EncodeOne(byte) ==
    LET encoded == encode_byte(byte) IN
    IF needs_escape(byte, encoded)
    THEN <<ESCAPE_CHAR, Wrap8(encoded + ESCAPE_OFFSET)>>
    ELSE <<encoded>>

\* an encoding loop that ends a line only once the count has passed the limit
RECURSIVE EncodeBody_late(_, _, _)
EncodeBody_late(bytes, line_length, limit) ==
    IF bytes = <<>> THEN (IF line_length > 0 THEN NL ELSE <<>>)
    ELSE LET out == EncodeOne(Head(bytes))
             col == line_length + Len(out)
         IN IF col > limit
            THEN out \o NL \o EncodeBody_late(Tail(bytes), 0, limit)
            ELSE out \o EncodeBody_late(Tail(bytes), col, limit)

\* the encoding loop and the flush of a partial last line: line_length is
\* the running column count, limit the configured line length
RECURSIVE EncodeBody(_, _, _)
EncodeBody(bytes, line_length, limit) ==
    IF bytes = <<>> THEN (IF line_length > 0 THEN NL ELSE <<>>)
    ELSE LET out == EncodeOne(Head(bytes))
             col == line_length + Len(out)
         IN IF col >= limit
            THEN out \o NL \o EncodeBody(Tail(bytes), 0, limit)
            ELSE out \o EncodeBody(Tail(bytes), col, limit)

\* the end line of Encoder::encode: size, and crc32 when a checksum was
\* computed
encode_end_line(size, crc32) ==
    YEND \o K_size \o EQ \o ToDec(size)
    \o (IF IsSome(crc32)
        THEN SP \o K_crc32 \o EQ \o ToHex8(Unwrap(crc32))
        ELSE <<>>)
    \o NL

\* an end line of a part that gives the part's checksum as crc32 when the
\* caller supplied none for the whole file
encode_part_end_line_own_crc32(part_size, part_info, part_crc) ==
    YEND \o K_size \o EQ \o ToDec(part_size) \o SP
    \o K_part \o EQ \o ToDec(part_info.part)
    \o (IF IsSome(part_crc)
        THEN SP \o K_pcrc32 \o EQ \o ToHex8(Unwrap(part_crc))
        ELSE <<>>)
    \o (IF IsSome(part_info.full_crc)
        THEN SP \o K_crc32 \o EQ \o ToHex8(Unwrap(part_info.full_crc))
        ELSE IF IsSome(part_crc)
        THEN SP \o K_crc32 \o EQ \o ToHex8(Unwrap(part_crc))
        ELSE <<>>)
    \o NL

\* the end line of Encoder::encode_part: size, part, pcrc32 when a checksum
\* was computed, crc32 when the MultiPartInfo carries one
encode_part_end_line(part_size, part_info, part_crc) ==
    YEND \o K_size \o EQ \o ToDec(part_size) \o SP
    \o K_part \o EQ \o ToDec(part_info.part)
    \o (IF IsSome(part_crc)
        THEN SP \o K_pcrc32 \o EQ \o ToHex8(Unwrap(part_crc))
        ELSE <<>>)
    \o (IF IsSome(part_info.full_crc)
        THEN SP \o K_crc32 \o EQ \o ToHex8(Unwrap(part_info.full_crc))
        ELSE <<>>)
    \o NL

\* Encoder::encode: [result, written, value]
Encoder_encode(e, input_data, filename) ==
    LET size == Len(input_data)
        crc32 == IF e.compute_crc THEN Some(Crc32(input_data)) ELSE None
        begin_line == YBEGIN \o K_line \o EQ \o ToDec(e.line_length) \o SP
                      \o K_size \o EQ \o ToDec(size) \o SP
                      \o K_name \o EQ \o filename \o NL
        end_line == encode_end_line(size, crc32)
    IN [result |-> Ok,
        written |-> begin_line \o EncodeBody(input_data, 0, e.line_length) \o end_line,
        value |-> size]

\* Encoder::encode_part
Encoder_encode_part(e, input_data, filename, part_info, overflow_checks) ==
    LET part_size == Len(input_data)
        expected_size == MultiPartInfo_expected_size(part_info, overflow_checks)
        part_crc == IF e.compute_crc THEN Some(Crc32(input_data)) ELSE None
        begin_line == YBEGIN \o K_part \o EQ \o ToDec(part_info.part) \o SP
                      \o K_total \o EQ \o ToDec(part_info.total) \o SP
                      \o K_line \o EQ \o ToDec(e.line_length) \o SP
                      \o K_size \o EQ \o ToDec(part_info.full_size) \o SP
                      \o K_name \o EQ \o filename \o NL
        part_line == YPART \o K_begin \o EQ \o ToDec(part_info.begin) \o SP
                     \o K_end \o EQ \o ToDec(part_info.end) \o NL
        end_line == encode_part_end_line(part_size, part_info, part_crc)
    IN
    IF expected_size = None THEN
        [result |-> Err("Panic", "attempt to subtract with overflow", <<>>),
         written |-> <<>>, value |-> 0]
    ELSE IF part_size # Unwrap(expected_size) THEN
        [result |-> Err("InvalidData", "Part size mismatch",
                        <<Unwrap(expected_size), part_info.begin, part_info.end, part_size>>),
         written |-> <<>>, value |-> 0]
    ELSE
        [result |-> Ok,
         written |-> begin_line \o part_line
                     \o EncodeBody(input_data, 0, e.line_length) \o end_line,
         value |-> part_size]

-----------------------------------------------------------------------------
(* decode.rs: Decoder::decode, one line of the stream at a time *)

\* the locals of decode before its first read
DecodeStart ==
    [pc |-> "header", pos |-> 1, line |-> <<>>,
     header |-> NoHeader, part_info |-> None, trailer |-> None,
     crc_hasher |-> None, bytes_written |-> 0, escaped |-> FALSE,
     result |-> Pending]

\* return Err(e) / return Ok(..)
Return(l, r) == [l EXCEPT !.pc = "done", !.result = r]

\* line.clear(); buf_reader.read_until(b'\n', &mut line)
Read(s, l) ==
    [l EXCEPT !.line = ReadLine(s, l.pos), !.pos = l.pos + Len(ReadLine(s, l.pos))]

\* a header loop that takes the first line of the stream or none
HeaderStep_no_seek(s, l0) ==
    LET l == Read(s, l0)
        trimmed == trim_bytes(l.line)
        parsed == YencHeader_parse(trimmed)
    IN
    IF l.line = <<>> \/ ~StartsWith(trimmed, YBEGIN)
    THEN Return(l, Err("InvalidHeader", "No header found", <<>>))
    ELSE IF IsErr(parsed.error) THEN Return(l, parsed.error)
    ELSE [l EXCEPT !.header = parsed.value, !.pc = "part"]

\* one iteration of the header loop
HeaderStep(s, l0) ==
    LET l == Read(s, l0)
        trimmed == trim_bytes(l.line)
        parsed == YencHeader_parse(trimmed)
    IN
    IF l.line = <<>> THEN Return(l, Err("InvalidHeader", "No header found", <<>>))
    ELSE IF ~StartsWith(trimmed, YBEGIN) THEN l
    ELSE IF ~IsUtf8(trimmed) THEN Return(l, Err("InvalidHeader", "Invalid header", <<>>))
    ELSE IF IsErr(parsed.error) THEN Return(l, parsed.error)
    ELSE [l EXCEPT !.header = parsed.value, !.pc = "part"]

\* a decoder that does not ask for the part line
MissingPartLine_never(header, part_info) == FALSE

\* header.part.is_some() && part_info.is_none()
MissingPartLine(header, part_info) == IsSome(header.part) /\ part_info = None

\* a decoder that hashes whether or not validation is enabled
CrcHasherInit_always(c) == Some(HasherNew)

\* the hasher decode starts with: None when validation is disabled
CrcHasherInit(c) == IF c.validate_crc THEN Some(HasherNew) ELSE None

\* from the read after the header to the start of the body loop
PartStep(s, l0, c) ==
    LET l == Read(s, l0)
        trimmed == trim_bytes(l.line)
        parsed == YencPart_parse(trimmed)
        l2 == Read(s, l)
        is_part == StartsWith(trimmed, YPART)
        body == [(IF is_part THEN l2 ELSE l) EXCEPT
                    !.part_info = IF is_part THEN Some(parsed.value) ELSE None,
                    !.crc_hasher = CrcHasherInit(c),
                    !.bytes_written = 0,
                    !.escaped = FALSE,
                    !.pc = "body"]
    IN
    IF l.line = <<>> THEN Return(l, Err("InvalidData", "No data found", <<>>))
    ELSE IF is_part /\ ~IsUtf8(trimmed) THEN
        Return(l, Err("InvalidData", "Invalid part line", <<>>))
    ELSE IF is_part /\ IsErr(parsed.error) THEN Return(l, parsed.error)
    ELSE IF is_part /\ l2.line = <<>> THEN
        Return(l2, Err("InvalidData", "No data found after part line", <<>>))
    ELSE IF MissingPartLine(l.header, body.part_info) THEN
        Return(l, Err("InvalidData",
                      "Header indicates multi-part but no =ypart line found", <<>>))
    ELSE body

\* a part number check that lets an end line without a part field pass
PartNumberMismatch_present(header, trailer) ==
    IsSome(header.part) /\ IsSome(trailer.part) /\ trailer.part # header.part

\* trailer.part != Some(header_part), asked when the header has a part number
PartNumberMismatch(header, trailer) ==
    IsSome(header.part) /\ trailer.part # Some(Unwrap(header.part))

\* a choice of field that falls back on the other checksum when the
\* relevant one is absent
expected_crc_fallback(part_info, trailer) ==
    IF IsSome(part_info)
    THEN (IF IsSome(trailer.pcrc32) THEN trailer.pcrc32 ELSE trailer.crc32)
    ELSE (IF IsSome(trailer.crc32) THEN trailer.crc32 ELSE trailer.pcrc32)

\* the checksum field decode compares with: pcrc32 when a part line was
\* read, crc32 otherwise
expected_crc(part_info, trailer) ==
    IF IsSome(part_info) THEN trailer.pcrc32 ELSE trailer.crc32

\* the end line: parse, the part checks, the checksum check
TrailerStep(l, c, overflow_checks) ==
    LET trimmed == trim_bytes(l.line)
        parsed == YencTrailer_parse(trimmed)
        trailer == parsed.value
        part == Unwrap(l.part_info)
        expected_size == YencPart_size(part, overflow_checks)
        computed_crc == HasherFinalize(Unwrap(l.crc_hasher))
        expected == expected_crc(l.part_info, trailer)
    IN
    IF ~IsUtf8(trimmed) THEN Return(l, Err("InvalidData", "Invalid trailer", <<>>))
    ELSE IF IsErr(parsed.error) THEN Return(l, parsed.error)
    ELSE IF IsSome(l.part_info) /\ expected_size = None THEN
        Return(l, Err("Panic", "attempt to subtract with overflow", <<>>))
    ELSE IF IsSome(l.part_info) /\ trailer.size # Unwrap(expected_size) THEN
        Return(l, Err("InvalidData", "Part size mismatch",
                      <<trailer.size, Unwrap(expected_size)>>))
    ELSE IF IsSome(l.part_info) /\ PartNumberMismatch(l.header, trailer) THEN
        Return(l, Err("InvalidData", "Part number mismatch",
                      <<Unwrap(l.header.part)>> \o trailer.part))
    ELSE IF /\ IsSome(l.crc_hasher)
            /\ IsSome(expected)
            /\ computed_crc # Unwrap(expected) THEN
        Return(l, CrcMismatch(Unwrap(expected), computed_crc))
    ELSE Return([l EXCEPT !.trailer = Some(trailer)], Ok)

\* the for loop over the bytes of one body line; st is
\* [escaped, crc_hasher, out, error], out the bytes written to the writer
RECURSIVE DecodeBytes(_, _, _)
DecodeBytes(bytes, st, strict) ==
    IF bytes = <<>> THEN st
    ELSE LET byte == Head(bytes) IN
         IF byte = ESCAPE_CHAR THEN
             DecodeBytes(Tail(bytes), [st EXCEPT !.escaped = TRUE], strict)
         ELSE
             LET result == decode_byte(Wrap8(byte - ESCAPE_OFFSET))
                 decoded == IF st.escaped THEN result ELSE decode_byte(byte)
             IN
             IF st.escaped /\ strict /\ result \notin Range(ESCAPING_CHARS) THEN
                 [st EXCEPT !.escaped = FALSE,
                            !.error = Err("InvalidData", "Invalid escape sequence", <<byte>>)]
             ELSE
                 DecodeBytes(Tail(bytes),
                     [st EXCEPT !.escaped = FALSE,
                                !.crc_hasher = IF IsSome(st.crc_hasher)
                                               THEN Some(HasherUpdate(Unwrap(st.crc_hasher), decoded))
                                               ELSE None,
                                !.out = st.out \o <<decoded>>],
                     strict)

\* a decoder that does not look at the escape state after the loop
IncompleteEscape_ignored(escaped) == FALSE

\* if escaped { return Err(..) } after the loop
IncompleteEscape(escaped) == escaped

\* a body loop that stops at any control line
IsEndLine_any_control(trimmed) ==
    StartsWith(trimmed, YEND) \/ StartsWith(trimmed, YPART) \/ StartsWith(trimmed, YBEGIN)

\* trimmed.starts_with(b"=yend ") at the head of the body loop
IsEndLine(trimmed) == StartsWith(trimmed, YEND)

\* a body loop that takes back what a line wrote when the line fails
BodyStep_retract(s, l, c, overflow_checks) ==
    LET trimmed == trim_bytes(l.line)
        st == DecodeBytes(trimmed,
                          [escaped |-> l.escaped, crc_hasher |-> l.crc_hasher,
                           out |-> <<>>, error |-> Ok],
                          c.strict)
        l1 == [l EXCEPT !.escaped = st.escaped,
                        !.crc_hasher = st.crc_hasher,
                        !.bytes_written = l.bytes_written + Len(st.out)]
        l2 == Read(s, l1)
    IN
    IF IsEndLine(trimmed) THEN
        [l |-> TrailerStep(l, c, overflow_checks), out |-> <<>>]
    ELSE IF IsErr(st.error) THEN [l |-> Return(l, st.error), out |-> <<>>]
    ELSE IF l2.line # <<>> THEN [l |-> l2, out |-> st.out]
    ELSE IF IncompleteEscape(l2.escaped) THEN
        [l |-> Return(l2, Err("InvalidData",
                              "File ended with incomplete escape sequence", <<>>)),
         out |-> st.out]
    ELSE [l |-> Return(l2, Ok), out |-> st.out]

\* one iteration of the body loop, and what follows the loop when it breaks:
\* [l, out]
BodyStep(s, l, c, overflow_checks) ==
    LET trimmed == trim_bytes(l.line)
        st == DecodeBytes(trimmed,
                          [escaped |-> l.escaped, crc_hasher |-> l.crc_hasher,
                           out |-> <<>>, error |-> Ok],
                          c.strict)
        l1 == [l EXCEPT !.escaped = st.escaped,
                        !.crc_hasher = st.crc_hasher,
                        !.bytes_written = l.bytes_written + Len(st.out)]
        l2 == Read(s, l1)
    IN
    IF IsEndLine(trimmed) THEN
        [l |-> TrailerStep(l, c, overflow_checks), out |-> <<>>]
    ELSE IF IsErr(st.error) THEN [l |-> Return(l1, st.error), out |-> st.out]
    ELSE IF l2.line # <<>> THEN [l |-> l2, out |-> st.out]
    ELSE IF IncompleteEscape(l2.escaped) THEN
        [l |-> Return(l2, Err("InvalidData",
                              "File ended with incomplete escape sequence", <<>>)),
         out |-> st.out]
    ELSE [l |-> Return(l2, Ok), out |-> st.out]

\* the next step of decode: [l, out]
DecodeStep(s, l, c, overflow_checks) ==
    IF l.pc = "header" THEN [l |-> HeaderStep(s, l), out |-> <<>>]
    ELSE IF l.pc = "part" THEN [l |-> PartStep(s, l, c), out |-> <<>>]
    ELSE BodyStep(s, l, c, overflow_checks)

\* the whole call, from locals l with w already written: [l, out]
RECURSIVE DecodeFrom(_, _, _, _, _)
DecodeFrom(s, l, w, c, overflow_checks) ==
    IF l.pc = "done" THEN [l |-> l, out |-> w]
    ELSE LET n == DecodeStep(s, l, c, overflow_checks)
         IN DecodeFrom(s, n.l, w \o n.out, c, overflow_checks)

\* Decoder::decode(reader, writer)
Decoder_decode(s, c, overflow_checks) == DecodeFrom(s, DecodeStart, <<>>, c, overflow_checks)

-----------------------------------------------------------------------------
(* The callers: tests/roundtrip.rs, tests/multipart.rs and the unit tests  *)
(* of decode.rs encode a buffer, possibly alter the text, and decode it    *)

SeqsUpTo(S, n) == UNION {[1..k -> S] : k \in 0..n}

\* raw bytes of the altered-stream runs: plain ('*'), the escape marker
\* itself, and one whose encoded form is NUL
Alphabet == {0, 61, 214}

\* the raw bytes the format treats specially, and the raw bytes whose
\* encoded form is one of them
CriticalRaw == Range(ESCAPING_CHARS)
CriticalEncoded == {Wrap8(c - OFFSET) : c \in Range(ESCAPING_CHARS)}

Files == SeqsUpTo(Alphabet, MaxLen)

RoundTripFiles ==
    {<<b>> : b \in 0..255} \cup SeqsUpTo(CriticalRaw, MaxLen)
        \cup SeqsUpTo(CriticalEncoded \cup {79}, MaxLen)

\* "a.b"
FileName == <<97, 46, 98>>

\* filenames a caller passes: the texts of up to MaxName characters out of
\* 'a', '.', ' ' and '=', and names that hold the text of a header field
NameAlphabet == {97, 46, 32, 61}

FileNames ==
    SeqsUpTo(NameAlphabet, MaxName)
        \cup {<<97, 32>> \o k \o EQ \o <<57>> : k \in {K_size, K_line, K_part, K_total}}

\* Encoder::new(), .line_length(n), .no_crc()
Encoder_new == [line_length |-> LINE_LENGTH, compute_crc |-> TRUE]

\* Decoder::new(), .strict(), .no_crc_check()
Decoder_new == [strict |-> FALSE, validate_crc |-> TRUE]

NoCall ==
    [fn |-> "none", line_length |-> LINE_LENGTH, compute_crc |-> TRUE,
     filename |-> <<>>, part_info |-> None, result |-> Pending, value |-> 0]

InitWith(files) ==
    /\ file \in files
    /\ phase = "input"
    /\ assembled = <<>>
    /\ data = <<>>
    /\ enc = NoCall
    /\ stream = <<>>
    /\ cfg = Decoder_new
    /\ d = DecodeStart
    /\ sink = <<>>

Init == InitWith(Files)

\* the builds that can differ on this step: with and without overflow
\* checks where the part span overflows, one otherwise
Builds(begin, end) == IF end < begin THEN BOOLEAN ELSE {FALSE}

\* yenc::encode / Encoder::encode on the whole file
Encode(line_lengths) ==
    /\ phase = "input"
    /\ assembled = <<>>
    /\ \E ll \in line_lengths, cc \in BOOLEAN :
        LET e == [line_length |-> ll, compute_crc |-> cc]
            r == Encoder_encode(e, file, FileName)
        IN /\ data' = file
           /\ enc' = [fn |-> "encode", line_length |-> ll, compute_crc |-> cc,
                      filename |-> FileName, part_info |-> None,
                      result |-> r.result, value |-> r.value]
           /\ stream' = r.written
           /\ phase' = "encoded"
    /\ UNCHANGED <<file, assembled, cfg, d, sink>>

\* yenc::encode / Encoder::encode on the whole file under a filename of the
\* caller's choice
EncodeNamed(filenames) ==
    /\ phase = "input"
    /\ assembled = <<>>
    /\ \E filename \in filenames, cc \in BOOLEAN :
        LET e == [line_length |-> LINE_LENGTH, compute_crc |-> cc]
            r == Encoder_encode(e, file, filename)
        IN /\ data' = file
           /\ enc' = [fn |-> "encode", line_length |-> LINE_LENGTH, compute_crc |-> cc,
                      filename |-> filename, part_info |-> None,
                      result |-> r.result, value |-> r.value]
           /\ stream' = r.written
           /\ phase' = "encoded"
    /\ UNCHANGED <<file, assembled, cfg, d, sink>>

\* the part after the ones put together: MultiPartInfo::new(part, total,
\* begin, end, full_size), with_full_crc, and the slice handed to encode_part
PartsDone == IF enc.part_info = None THEN 0 ELSE Unwrap(enc.part_info).part

EncodePart(line_lengths, ends_off) ==
    /\ phase = "input"
    /\ Len(file) > 0
    /\ \E ll \in line_lengths, cc \in BOOLEAN, fc \in BOOLEAN, off \in ends_off :
       \E end \in (Len(assembled) + 1)..Len(file) :
        LET begin == Len(assembled) + 1
            input == SubSeq(file, begin, end)
            info == [part |-> PartsDone + 1,
                     total |-> IF end = Len(file) THEN PartsDone + 1 ELSE PartsDone + 2,
                     begin |-> begin,
                     end |-> end + off,
                     full_size |-> Len(file),
                     full_crc |-> IF fc THEN Some(Crc32(file)) ELSE None]
            e == [line_length |-> ll, compute_crc |-> cc]
        IN \E oc \in Builds(info.begin, info.end) :
            LET r == Encoder_encode_part(e, input, FileName, info, oc)
            IN /\ data' = input
               /\ enc' = [fn |-> "encode_part", line_length |-> ll, compute_crc |-> cc,
                          filename |-> FileName, part_info |-> Some(info),
                          result |-> r.result, value |-> r.value]
               /\ stream' = r.written
               /\ phase' = IF IsErr(r.result) THEN "done" ELSE "encoded"
    /\ UNCHANGED <<file, assembled, cfg, d, sink>>

\* Decoder::new() with the builder calls, then decode(&stream[..], &mut sink)
StartDecode(stricts, validates) ==
    /\ phase \in {"encoded", "altered"}
    /\ \E st \in stricts, v \in validates :
        cfg' = [strict |-> st, validate_crc |-> v]
    /\ d' = DecodeStart
    /\ sink' = <<>>
    /\ phase' = "decoding"
    /\ UNCHANGED <<file, assembled, data, enc, stream>>

\* the builds that can differ on the next step of decode
StepBuilds ==
    IF IsSome(d.part_info)
    THEN Builds(Unwrap(d.part_info).begin, Unwrap(d.part_info).end)
    ELSE {FALSE}

\* the iterations of the header loop
DecodeHeader ==
    /\ phase = "decoding"
    /\ d.pc = "header"
    /\ d' = HeaderStep(stream, d)
    /\ phase' = IF d'.pc = "done" THEN "done" ELSE "decoding"
    /\ UNCHANGED <<file, assembled, data, enc, stream, cfg, sink>>

\* the line after the header
DecodePart ==
    /\ phase = "decoding"
    /\ d.pc = "part"
    /\ d' = PartStep(stream, d, cfg)
    /\ phase' = IF d'.pc = "done" THEN "done" ELSE "decoding"
    /\ UNCHANGED <<file, assembled, data, enc, stream, cfg, sink>>

\* the iterations of the body loop
DecodeBody ==
    /\ phase = "decoding"
    /\ d.pc = "body"
    /\ \E oc \in StepBuilds :
        LET n == BodyStep(stream, d, cfg, oc)
        IN /\ d' = n.l
           /\ sink' = sink \o n.out
    /\ phase' = IF d'.pc = "done" THEN "done" ELSE "decoding"
    /\ UNCHANGED <<file, assembled, data, enc, stream, cfg>>

\* reassembled.extend_from_slice(&decoded_part)
Assemble ==
    /\ phase = "done"
    /\ enc.fn = "encode_part"
    /\ d.result = Ok
    /\ assembled' = assembled \o sink
    /\ phase' = IF Len(assembled \o sink) >= Len(file) THEN "assembled" ELSE "input"
    /\ stream' = <<>>
    /\ d' = DecodeStart
    /\ sink' = <<>>
    /\ UNCHANGED <<file, data, enc, cfg>>

\* the lines of a text, each with its terminator
RECURSIVE Lines(_, _)
Lines(s, pos) ==
    IF pos > Len(s) THEN <<>>
    ELSE <<ReadLine(s, pos)>> \o Lines(s, pos + Len(ReadLine(s, pos)))

RECURSIVE Concat(_)
Concat(ls) == IF ls = <<>> THEN <<>> ELSE Head(ls) \o Concat(Tail(ls))

\* the end line a test writes by hand: "=yend size=5 part=1 pcrc32=515ad3cc"
FormatTrailer(t) ==
    YEND
    \o (IF IsSome(t.size) THEN K_size \o EQ \o ToDec(Unwrap(t.size)) ELSE <<>>)
    \o (IF IsSome(t.part) THEN SP \o K_part \o EQ \o ToDec(Unwrap(t.part)) ELSE <<>>)
    \o (IF IsSome(t.pcrc32) THEN SP \o K_pcrc32 \o EQ \o ToHex8(Unwrap(t.pcrc32)) ELSE <<>>)
    \o (IF IsSome(t.crc32) THEN SP \o K_crc32 \o EQ \o ToHex8(Unwrap(t.crc32)) ELSE <<>>)
    \o NL

\* the part line a test writes by hand: "=ypart begin=1 end=5"
FormatPart(begin, end) ==
    YPART \o K_begin \o EQ \o ToDec(begin) \o SP \o K_end \o EQ \o ToDec(end) \o NL

\* a checksum other than c: "ffffffff" as in the tests, unless c is that
OtherCrc(c) == IF c = AllOnes THEN <<0, 0, 0, 0, 0, 0, 0, 0>> ELSE AllOnes

\* what a test does to one field of the end line
AlterNumber(how, v) ==
    IF how = "keep" THEN v
    ELSE IF how = "absent" THEN None
    ELSE IF IsSome(v) THEN Some(Unwrap(v) + 1) ELSE Some(1)

AlterCrc(how, v, right) ==
    IF how = "keep" THEN v
    ELSE IF how = "absent" THEN None
    ELSE IF how = "right" THEN Some(right)
    ELSE Some(OtherCrc(right))

Alteration(size, part, pcrc32, crc32) ==
    [size |-> size, part |-> part, pcrc32 |-> pcrc32, crc32 |-> crc32]

\* the end lines the tests write: one field changed or dropped, and the
\* combinations that decide which check comes first
TrailerAlterations ==
    { Alteration("other", "keep", "keep", "keep"),
      Alteration("absent", "keep", "keep", "keep"),
      Alteration("keep", "other", "keep", "keep"),
      Alteration("keep", "absent", "keep", "keep"),
      Alteration("keep", "keep", "other", "keep"),
      Alteration("keep", "keep", "absent", "keep"),
      Alteration("keep", "keep", "keep", "other"),
      Alteration("keep", "keep", "keep", "absent"),
      Alteration("keep", "keep", "right", "other"),
      Alteration("keep", "keep", "other", "right"),
      Alteration("keep", "keep", "absent", "other"),
      Alteration("keep", "keep", "other", "absent"),
      Alteration("other", "other", "keep", "keep"),
      Alteration("other", "keep", "other", "other"),
      Alteration("keep", "other", "other", "other") }

\* replace the end line of the encoded text (tests/roundtrip.rs corrupts the
\* crc32 value in place; the unit tests of decode.rs write whole end lines)
AlterTrailer ==
    /\ phase = "encoded"
    /\ \E a \in TrailerAlterations :
        LET ls == Lines(stream, 1)
            t == YencTrailer_parse(trim_bytes(ls[Len(ls)])).value
            right == Crc32(data)
            new == [size |-> AlterNumber(a.size, Some(t.size)),
                    part |-> AlterNumber(a.part, t.part),
                    pcrc32 |-> AlterCrc(a.pcrc32, t.pcrc32, right),
                    crc32 |-> AlterCrc(a.crc32, t.crc32, right)]
        IN stream' = Concat(SubSeq(ls, 1, Len(ls) - 1)) \o FormatTrailer(new)
    /\ phase' = "altered"
    /\ UNCHANGED <<file, assembled, data, enc, cfg, d, sink>>

\* replace, drop or insert the part line (the second line of the text)
AlterPartLine ==
    /\ phase = "encoded"
    /\ LET ls == Lines(stream, 1)
           n == Len(data)
       IN IF enc.fn = "encode_part"
          THEN \/ stream' = Concat(<<ls[1]>> \o SubSeq(ls, 3, Len(ls)))
               \/ \E span \in {<<1, n + 1>>, <<2, n>>, <<3, n>>, <<n + 2, 1>>} :
                    stream' = Concat(<<ls[1], FormatPart(span[1], span[2])>>
                                     \o SubSeq(ls, 3, Len(ls)))
          ELSE \E span \in {<<1, n>>, <<1, n + 1>>, <<2, n>>} :
                    stream' = Concat(<<ls[1], FormatPart(span[1], span[2])>>
                                     \o SubSeq(ls, 2, Len(ls)))
    /\ phase' = "altered"
    /\ UNCHANGED <<file, assembled, data, enc, cfg, d, sink>>

\* the bytes of the hand-written bodies: '*' (a plain byte), '=' (the
\* marker), 'j' (the pair byte of NUL), LF and SPACE
BodyAlphabet == {42, 61, 106, 10, 32}

\* the body texts: every text over BodyAlphabet up to MaxBody bytes, and the
\* marker followed by each of the 256 byte values
BodyTexts ==
    SeqsUpTo(BodyAlphabet, MaxBody) \cup {<<61, n>> : n \in 0..255}

\* the control lines of the encoded text around a hand-written body, as in
\* b"=ybegin line=128 size=1 name=test.bin\n=a\n=yend size=1\n"; without the
\* end line the text stops where the body stops
WriteBody(bodies) ==
    /\ phase = "encoded"
    /\ \E body \in bodies, with_end \in BOOLEAN :
        LET ls == Lines(stream, 1)
            head == IF enc.fn = "encode_part" THEN ls[1] \o ls[2] ELSE ls[1]
        IN stream' = IF with_end
                     THEN head \o body \o NL \o ls[Len(ls)]
                     ELSE head \o body
    /\ phase' = "altered"
    /\ UNCHANGED <<file, assembled, data, enc, cfg, d, sink>>

\* lines a transport may put before the begin line: text, an empty line,
\* blanks, and control-line look-alikes: "=ybegin" without the space,
\* "=ybegin " whose space the trimming removes, an end line and a part line
PrefixLines ==
    { <<120, 10>>,
      <<10>>,
      <<32, 9, 13, 10>>,
      <<61, 121, 98, 101, 103, 105, 110, 10>>,
      <<61, 121, 98, 101, 103, 105, 110, 32, 10>>,
      YEND \o K_size \o EQ \o <<49, 10>>,
      FormatPart(1, 1) }

Prefixes == UNION {[1..k -> PrefixLines] : k \in 0..MaxPrefix}

\* put lines before the encoded text, with or without its begin line
\* (tests/decoding.rs decodes b"VWXYZ\n=yend size=5\n")
Prepend(prefixes) ==
    /\ phase = "encoded"
    /\ \E p \in prefixes, with_begin \in BOOLEAN :
        LET ls == Lines(stream, 1)
        IN stream' = Concat(p) \o (IF with_begin THEN stream
                                   ELSE Concat(SubSeq(ls, 2, Len(ls))))
    /\ phase' = "altered"
    /\ UNCHANGED <<file, assembled, data, enc, cfg, d, sink>>

\* the tokens of a control line put together again, one space between them
RECURSIVE Join(_)
Join(toks) ==
    IF toks = <<>> THEN <<>>
    ELSE IF Len(toks) = 1 THEN toks[1]
    ELSE toks[1] \o SP \o Join(Tail(toks))

\* a control line with one key taken out ("absent"), left without a value
\* ("empty": "size=") or given a value that is no number ("garbled": "size=x")
RewriteField(line, key, how) ==
    LET toks == SplitWhitespace(line)
        IsKey(t) == SplitOnce(t) # <<>> /\ SplitOnce(t)[1] = key
        kept == SelectSeq(toks, LAMBDA t : ~IsKey(t))
        changed == [i \in DOMAIN toks |->
                        IF ~IsKey(toks[i]) THEN toks[i]
                        ELSE IF how = "empty" THEN key \o EQ
                        ELSE key \o EQ \o <<120>>]
    IN Join(IF how = "absent" THEN kept ELSE changed) \o NL

\* the required keys of the three control lines
RequiredKeys == {K_name, K_size, K_begin, K_end}

\* rewrite one required field of one control line of the encoded text, as
\* the tests of header.rs and decode.rs write incomplete lines by hand
AlterField ==
    /\ phase = "encoded"
    /\ \E i \in DOMAIN Lines(stream, 1), key \in RequiredKeys,
          how \in {"absent", "empty", "garbled"} :
        LET ls == Lines(stream, 1)
        IN /\ \/ StartsWith(ls[i], YBEGIN)
              \/ StartsWith(ls[i], YPART)
              \/ StartsWith(ls[i], YEND)
           /\ LastOf(KeyValues(ls[i], 0), key) # None
           /\ stream' = Concat([j \in DOMAIN ls |->
                                   IF j = i THEN RewriteField(ls[j], key, how)
                                   ELSE ls[j]])
    /\ phase' = "altered"
    /\ UNCHANGED <<file, assembled, data, enc, cfg, d, sink>>

\* whole-file checksums a caller hands to with_full_crc: every hexadecimal
\* digit at every place, before zeros and before f's, and 0x12345678 of
\* test_encode_multipart_with_full_crc
CrcSamples ==
    {[i \in 1..8 |-> IF i = p THEN x ELSE z] : p \in 1..8, x \in 0..15, z \in {0, 15}}
        \cup {<<1, 2, 3, 4, 5, 6, 7, 8>>}

\* encode_part of the whole file as its only part,
\* MultiPartInfo::new(1, 1, 1, len, len).with_full_crc(crc)
EncodePartWithCrc(crcs) ==
    /\ phase = "input"
    /\ assembled = <<>>
    /\ Len(file) > 0
    /\ \E crc \in crcs, cc \in BOOLEAN :
        LET info == [part |-> 1, total |-> 1, begin |-> 1, end |-> Len(file),
                     full_size |-> Len(file), full_crc |-> Some(crc)]
            e == [line_length |-> LINE_LENGTH, compute_crc |-> cc]
            r == Encoder_encode_part(e, file, FileName, info, FALSE)
        IN /\ data' = file
           /\ enc' = [fn |-> "encode_part", line_length |-> LINE_LENGTH,
                      compute_crc |-> cc, filename |-> FileName,
                      part_info |-> Some(info),
                      result |-> r.result, value |-> r.value]
           /\ stream' = r.written
           /\ phase' = "encoded"
    /\ UNCHANGED <<file, assembled, cfg, d, sink>>

\* the letters a..f of a checksum in upper case
UpperHex(text) ==
    [i \in DOMAIN text |-> IF text[i] >= 97 /\ text[i] <= 102 THEN text[i] - 32 ELSE text[i]]

\* a control line with the values of its crc32 and pcrc32 fields in upper case
UpperCrcFields(line) ==
    LET toks == SplitWhitespace(line)
        IsCrc(t) == SplitOnce(t) # <<>> /\ SplitOnce(t)[1] \in {K_crc32, K_pcrc32}
    IN Join([i \in DOMAIN toks |->
                IF IsCrc(toks[i])
                THEN SplitOnce(toks[i])[1] \o EQ \o UpperHex(SplitOnce(toks[i])[2])
                ELSE toks[i]]) \o NL

\* the same text as another encoder writes it, with upper-case checksums
UpperCaseCrc ==
    /\ phase = "encoded"
    /\ LET ls == Lines(stream, 1)
       IN stream' = Concat([j \in DOMAIN ls |->
                               IF j = Len(ls) THEN UpperCrcFields(ls[j]) ELSE ls[j]])
    /\ phase' = "altered"
    /\ UNCHANGED <<file, assembled, data, enc, cfg, d, sink>>

\* runs of whitespace a transport puts around a control line: space, tab, CR
PadBytes == {32, 9, 13}
Pads == SeqsUpTo(PadBytes, MaxPad)

\* a control line of the text is a begin, part or end line once stripped
IsControlLine(line) ==
    \/ StartsWith(trim_bytes(line), YBEGIN)
    \/ StartsWith(trim_bytes(line), YPART)
    \/ StartsWith(trim_bytes(line), YEND)

\* put whitespace before and after one control line of the encoded text
PadLine(pads) ==
    /\ phase = "encoded"
    /\ \E i \in DOMAIN Lines(stream, 1), lead \in pads, trail \in pads :
        LET ls == Lines(stream, 1)
        IN /\ IsControlLine(ls[i])
           /\ lead \o trail # <<>>
           /\ stream' = Concat([j \in DOMAIN ls |->
                                   IF j = i
                                   THEN lead \o trim_bytes(ls[j]) \o trail \o NL
                                   ELSE ls[j]])
    /\ phase' = "altered"
    /\ UNCHANGED <<file, assembled, data, enc, cfg, d, sink>>

\* the parser a caller picks for a control line, applied to the text given:
\* YencHeader::parse, YencPart::parse or YencTrailer::parse
ParseControl(line, text) ==
    IF StartsWith(trim_bytes(line), YBEGIN) THEN
        LET r == YencHeader_parse(text)
        IN [DecodeStart EXCEPT !.pc = "done", !.line = text, !.result = r.error,
                               !.header = r.value]
    ELSE IF StartsWith(trim_bytes(line), YPART) THEN
        LET r == YencPart_parse(text)
        IN [DecodeStart EXCEPT !.pc = "done", !.line = text, !.result = r.error,
                               !.part_info = Some(r.value)]
    ELSE
        LET r == YencTrailer_parse(text)
        IN [DecodeStart EXCEPT !.pc = "done", !.line = text, !.result = r.error,
                               !.trailer = Some(r.value)]

\* a caller hands one control line of the text, as it stands there, to the
\* parser of its kind
ParseLine ==
    /\ phase \in {"encoded", "altered"}
    /\ \E i \in DOMAIN Lines(stream, 1) :
        LET line == Lines(stream, 1)[i]
        IN /\ IsControlLine(line)
           /\ d' = ParseControl(line, line)
    /\ phase' = "parsed"
    /\ UNCHANGED <<file, assembled, data, enc, stream, cfg, sink>>

\* a control line with the value of one key replaced
SetField(line, key, text) ==
    LET toks == SplitWhitespace(line)
        IsKey(t) == SplitOnce(t) # <<>> /\ SplitOnce(t)[1] = key
    IN Join([i \in DOMAIN toks |->
                IF IsKey(toks[i]) THEN key \o EQ \o text ELSE toks[i]]) \o NL

\* the sizes and positions a hand-written control line declares
DeclaredSizes == 0..MaxSize
DeclaredPositions == 1..(MaxSize + 1)

\* declare other sizes than the encoder did: size of the begin line, size of
\* the end line and, in a part, begin and end of the part line; the body and
\* the checksums stay (tests/multipart.rs writes begin=1000001 end=1000005
\* around a body of 5 bytes)
DeclareSizes ==
    /\ phase = "encoded"
    /\ \E hs \in DeclaredSizes, ts \in DeclaredSizes,
          b \in DeclaredPositions, e \in DeclaredPositions :
        LET ls == Lines(stream, 1)
            n == Len(ls)
        IN /\ enc.fn = "encode" => (b = 1 /\ e = 1)
           /\ stream' = Concat([j \in DOMAIN ls |->
                IF j = 1 THEN SetField(ls[j], K_size, ToDec(hs))
                ELSE IF j = n THEN SetField(ls[j], K_size, ToDec(ts))
                ELSE IF j = 2 /\ enc.fn = "encode_part" THEN FormatPart(b, e)
                ELSE ls[j]])
    /\ phase' = "altered"
    /\ UNCHANGED <<file, assembled, data, enc, cfg, d, sink>>

\* what a text may carry after its end line: nothing, a data line, a second
\* end line, a whole second text
Tails(ls) ==
    { <<>>, <<42, 10>>, ls[Len(ls)], <<42, 10>> \o ls[Len(ls)], Concat(ls) }

\* put a begin line or a part line among the body lines, before the first or
\* after the last of them, and a tail after the end line
InsertLines ==
    /\ phase = "encoded"
    /\ \E at \in {"first", "last", "none"}, which \in {"begin", "part"} :
        LET ls == Lines(stream, 1)
            h == IF enc.fn = "encode_part" THEN 2 ELSE 1
            ins == IF which = "begin" THEN ls[1] ELSE FormatPart(1, Len(data))
            body == Concat(SubSeq(ls, h + 1, Len(ls) - 1))
        IN \E tail \in Tails(ls) :
            /\ at = "none" => (which = "begin" /\ tail # <<>>)
            /\ stream' = Concat(SubSeq(ls, 1, h))
                         \o (IF at = "first" THEN ins ELSE <<>>)
                         \o body
                         \o (IF at = "last" THEN ins ELSE <<>>)
                         \o ls[Len(ls)] \o tail
    /\ phase' = "altered"
    /\ UNCHANGED <<file, assembled, data, enc, cfg, d, sink>>

\* checksum texts written by hand for a checksum crc: no hexadecimal
\* digits ("zzzzzzzz"), no value at all, nine digits ("1" and the eight of
\* crc), the eight digits after a zero, and a wrong value
CrcTexts(crc) ==
    { <<122, 122, 122, 122, 122, 122, 122, 122>>,
      <<>>,
      <<49>> \o ToHex8(crc),
      <<48>> \o ToHex8(crc),
      ToHex8(HasherNew) }

\* replace the value of a checksum field of the end line
GarbleCrc ==
    /\ phase = "encoded"
    /\ \E key \in {K_crc32, K_pcrc32}, text \in CrcTexts(Crc32(data)) :
        LET ls == Lines(stream, 1)
        IN /\ LastOf(KeyValues(trim_bytes(ls[Len(ls)]), 6), key) # None
           /\ stream' = Concat(SubSeq(ls, 1, Len(ls) - 1))
                        \o SetField(ls[Len(ls)], key, text)
    /\ phase' = "altered"
    /\ UNCHANGED <<file, assembled, data, enc, cfg, d, sink>>

LineLengths == {1, 2, LINE_LENGTH}

\* encode, possibly alter a control line, decode with or without the
\* checksum check
Next ==
    \/ Encode({LINE_LENGTH})
    \/ EncodePart({LINE_LENGTH}, {0, 1, -1})
    \/ AlterTrailer
    \/ AlterPartLine
    \/ StartDecode({FALSE}, BOOLEAN)
    \/ DecodeHeader
    \/ DecodePart
    \/ DecodeBody

Spec == Init /\ [][Next]_vars

\* encode the whole file, decode it with the default decoder
NextRoundTrip ==
    \/ Encode(LineLengths)
    \/ StartDecode({FALSE}, {TRUE})
    \/ DecodeHeader
    \/ DecodePart
    \/ DecodeBody

SpecRoundTrip == InitWith(RoundTripFiles) /\ [][NextRoundTrip]_vars

\* write a body between the control lines of an encoded text, decode it in
\* lenient or strict mode
NextBody ==
    \/ Encode({LINE_LENGTH})
    \/ EncodePart({LINE_LENGTH}, {0})
    \/ WriteBody(BodyTexts)
    \/ StartDecode(BOOLEAN, {TRUE})
    \/ DecodeHeader
    \/ DecodePart
    \/ DecodeBody

SpecBody == InitWith({<<0>>}) /\ [][NextBody]_vars

\* put lines before an encoded text, decode it
NextSeek ==
    \/ Encode({LINE_LENGTH})
    \/ Prepend(Prefixes)
    \/ StartDecode({FALSE}, {TRUE})
    \/ DecodeHeader
    \/ DecodePart
    \/ DecodeBody

SpecSeek == InitWith({<<>>, <<61, 214>>}) /\ [][NextSeek]_vars

\* take a required field out of a control line or spoil its value, decode
NextFields ==
    \/ Encode({LINE_LENGTH})
    \/ EncodePart({LINE_LENGTH}, {0})
    \/ AlterField
    \/ StartDecode({FALSE}, {TRUE})
    \/ DecodeHeader
    \/ DecodePart
    \/ DecodeBody

SpecFields == InitWith({<<0>>, <<61, 214>>}) /\ [][NextFields]_vars

\* write a part with any whole-file checksum, in either letter case, decode
NextHex ==
    \/ EncodePartWithCrc(CrcSamples)
    \/ UpperCaseCrc
    \/ StartDecode({FALSE}, {TRUE})
    \/ DecodeHeader
    \/ DecodePart
    \/ DecodeBody

SpecHex == InitWith({<<0>>}) /\ [][NextHex]_vars

\* encode under any filename, decode
NextNames ==
    \/ EncodeNamed(FileNames)
    \/ StartDecode({FALSE}, {TRUE})
    \/ DecodeHeader
    \/ DecodePart
    \/ DecodeBody

SpecNames == InitWith({<<0>>}) /\ [][NextNames]_vars

\* put whitespace around a control line, decode the text or parse the line
NextPad ==
    \/ Encode({LINE_LENGTH})
    \/ EncodePart({LINE_LENGTH}, {0})
    \/ PadLine(Pads)
    \/ ParseLine
    \/ StartDecode({FALSE}, {TRUE})
    \/ DecodeHeader
    \/ DecodePart
    \/ DecodeBody

SpecPad == InitWith({<<0>>}) /\ [][NextPad]_vars

\* the texts that make decode fail at each of its points: a control line
\* with a field spoilt, an altered part or end line, a hand-written body, a
\* text without its begin line; decoded in lenient or strict mode
NextErrors ==
    \/ Encode({LINE_LENGTH})
    \/ EncodePart({LINE_LENGTH}, {0})
    \/ AlterField
    \/ AlterTrailer
    \/ AlterPartLine
    \/ WriteBody(SeqsUpTo(BodyAlphabet, MaxBody))
    \/ Prepend({<<>>, <<<<120, 10>>>>})
    \/ StartDecode(BOOLEAN, {TRUE})
    \/ DecodeHeader
    \/ DecodePart
    \/ DecodeBody

SpecErrors == InitWith({<<0>>, <<61, 214>>}) /\ [][NextErrors]_vars

\* declare sizes that are not those of the body, decode with or without
\* checksum validation
NextSizes ==
    \/ Encode({LINE_LENGTH})
    \/ EncodePart({LINE_LENGTH}, {0})
    \/ DeclareSizes
    \/ StartDecode({FALSE}, BOOLEAN)
    \/ DecodeHeader
    \/ DecodePart
    \/ DecodeBody

SpecSizes == InitWith({<<0>>, <<61, 214>>}) /\ [][NextSizes]_vars

\* put control lines among the body lines and text after the end line,
\* decode with or without checksum validation
NextFraming ==
    \/ Encode({LINE_LENGTH})
    \/ EncodePart({LINE_LENGTH}, {0})
    \/ InsertLines
    \/ StartDecode({FALSE}, BOOLEAN)
    \/ DecodeHeader
    \/ DecodePart
    \/ DecodeBody

SpecFraming == InitWith({<<0>>, <<61, 214>>}) /\ [][NextFraming]_vars

\* encode the whole file, decode it with Decoder::new().strict()
NextStrict ==
    \/ Encode(LineLengths)
    \/ StartDecode({TRUE}, {TRUE})
    \/ DecodeHeader
    \/ DecodePart
    \/ DecodeBody

SpecStrict == InitWith(RoundTripFiles) /\ [][NextStrict]_vars

\* write a checksum value by hand, decode with validation
NextGarble ==
    \/ Encode({LINE_LENGTH})
    \/ EncodePart({LINE_LENGTH}, {0})
    \/ GarbleCrc
    \/ StartDecode({FALSE}, {TRUE})
    \/ DecodeHeader
    \/ DecodePart
    \/ DecodeBody

SpecGarble == InitWith({<<0>>, <<61, 214>>}) /\ [][NextGarble]_vars

\* encode the file part by part, decode each part, put the parts together
NextParts ==
    \/ EncodePart(LineLengths, {0})
    \/ StartDecode({FALSE}, {TRUE})
    \/ DecodeHeader
    \/ DecodePart
    \/ DecodeBody
    \/ Assemble

SpecParts == InitWith(Files) /\ [][NextParts]_vars

-----------------------------------------------------------------------------
(* Properties *)

\* the text the encoder call of this run wrote
Encoded ==
    IF enc.fn = "encode"
    THEN Encoder_encode(enc, data, enc.filename).written
    ELSE Encoder_encode_part(enc, data, enc.filename, Unwrap(enc.part_info), FALSE).written

\* the body of a text: the bytes of its lines between the control lines,
\* without the line terminators
BodyLines(s) ==
    SelectSeq(Lines(s, 1),
              LAMBDA ln : /\ ~StartsWith(ln, YBEGIN)
                          /\ ~StartsWith(ln, YPART)
                          /\ ~StartsWith(ln, YEND))

BodyOf(s) ==
    LET ls == BodyLines(s) IN
    Concat([i \in DOMAIN ls |-> SubSeq(ls[i], 1, Len(ls[i]) - 1)])

\* C1: single-part round trip. Whenever the default decoder has finished on
\* the text that encode wrote for a file (empty, any single byte, sequences
\* of critical bytes; any line length, checksum on or off), it returned Ok,
\* the sink holds exactly the file and bytes_written is the file's length.
C1_RoundTrip ==
    (phase = "done" /\ enc.fn = "encode" /\ cfg = Decoder_new) =>
        /\ d.result = Ok
        /\ sink = file
        /\ d.bytes_written = Len(file)

\* a two-byte file with an escape pair, wrapped after every byte
C1_Witness ==
    /\ phase = "done"
    /\ enc.fn = "encode"
    /\ enc.line_length = 1
    /\ file = <<19, 214>>
    /\ BodyLines(stream) = <<<<61, 125, 10>>, <<61, 64, 10>>>>
    /\ sink = file

\* what the format prescribes for one raw byte: with e = (b + 42) mod 256,
\* the pair ['=', (e + 64) mod 256] if e is NUL, TAB, LF, CR, SPACE, '.' or
\* '=', or b is '='; the single byte e otherwise
Prescribed(b) ==
    LET e == (b + 42) % 256 IN
    IF e \in {0, 9, 10, 13, 32, 46, 61} \/ b = 61
    THEN <<61, (e + 64) % 256>>
    ELSE <<e>>

OnlyCritical(bytes) ==
    \A i \in DOMAIN bytes : bytes[i] \in {0, 9, 10, 13, 32, 46, 61}

TrailerOf(s) ==
    LET ls == Lines(s, 1) IN YencTrailer_parse(trim_bytes(ls[Len(ls)])).value

HasPartLine(s) ==
    LET ls == Lines(s, 1) IN Len(ls) >= 2 /\ StartsWith(trim_bytes(ls[2]), YPART)

\* the checksum field that counts: pcrc32 with a part line, crc32 without
RelevantCrc(s) ==
    IF HasPartLine(s) THEN TrailerOf(s).pcrc32 ELSE TrailerOf(s).crc32

\* the text is what the encoder wrote except for the crc32 and pcrc32
\* fields of its end line
OnlyChecksumsAltered ==
    LET ls == Lines(stream, 1)
        es == Lines(Encoded, 1)
    IN /\ enc.result = Ok
       /\ Len(ls) = Len(es)
       /\ SubSeq(ls, 1, Len(ls) - 1) = SubSeq(es, 1, Len(es) - 1)
       /\ StartsWith(ls[Len(ls)], YEND)
       /\ TrailerOf(stream).size = TrailerOf(Encoded).size
       /\ TrailerOf(stream).part = TrailerOf(Encoded).part

\* C4: checksum enforcement. With validation enabled, when the text differs
\* from the encoder's only in the checksum fields of the end line and the
\* relevant field (pcrc32 with a part line, crc32 without) is present and
\* differs from the checksum of the decoded bytes, decode fails with
\* CrcMismatch, expected the end line's value, actual the checksum of the
\* bytes written to the sink.
C4_ChecksumEnforced ==
    (/\ phase = "done"
     /\ cfg.validate_crc
     /\ OnlyChecksumsAltered
     /\ IsSome(RelevantCrc(stream))
     /\ Unwrap(RelevantCrc(stream)) # Crc32(data)) =>
        /\ d.result.kind = "CrcMismatch"
        /\ d.result.expected = RelevantCrc(stream)
        /\ d.result.actual = Some(Crc32(sink))
        /\ sink = data

\* a part whose pcrc32 was changed to ffffffff while crc32 holds the right
\* value: the mismatch names ffffffff and the checksum of the part
C4_Witness ==
    /\ phase = "done"
    /\ cfg.validate_crc
    /\ enc.fn = "encode_part"
    /\ data = <<0, 61>>
    /\ OnlyChecksumsAltered
    /\ TrailerOf(stream).pcrc32 = Some(AllOnes)
    /\ TrailerOf(stream).crc32 = Some(Crc32(data))
    /\ d.result.kind = "CrcMismatch"
    /\ d.result.expected = Some(AllOnes)
    /\ d.result.actual = Some(Crc32(<<0, 61>>))

\* the text with the checksum fields of its end line replaced
WithChecksums(s, pcrc32, crc32) ==
    LET ls == Lines(s, 1)
        t == TrailerOf(s)
    IN Concat(SubSeq(ls, 1, Len(ls) - 1))
       \o FormatTrailer([size |-> Some(t.size), part |-> t.part,
                         pcrc32 |-> pcrc32, crc32 |-> crc32])

\* the text ends with an end line the trailer parser accepts
HasTrailer(s) ==
    LET ls == Lines(s, 1)
    IN /\ ls # <<>>
       /\ StartsWith(ls[Len(ls)], YEND)
       /\ ~IsErr(YencTrailer_parse(trim_bytes(ls[Len(ls)])).error)

\* C5: checksum bypass. When a decoder with validation disabled has
\* finished, (a) if the default decoder fails on the same text by
\* CrcMismatch, this one returned Ok and wrote the same bytes, and otherwise
\* both return the same result and bytes; (b) its result and the bytes it
\* wrote are those it gives on the text with the crc32 and pcrc32 fields
\* dropped from the end line, so neither depends on the values of the two.
C5_ChecksumBypass ==
    (phase = "done" /\ ~cfg.validate_crc /\ d.result # Pending) =>
        /\ \E oc \in StepBuilds :
            LET v == Decoder_decode(stream, Decoder_new, oc) IN
            /\ sink = v.out
            /\ IF v.l.result.kind = "CrcMismatch"
               THEN d.result = Ok
               ELSE d.result = v.l.result
        /\ HasTrailer(stream) =>
            \E oc \in StepBuilds :
                LET w == Decoder_decode(WithChecksums(stream, None, None), cfg, oc) IN
                /\ w.l.result = d.result
                /\ w.out = sink

\* a single-part text whose crc32 was changed to ffffffff: the default
\* decoder reports the mismatch, the one without validation returns the file
C5_Witness ==
    /\ phase = "done"
    /\ ~cfg.validate_crc
    /\ enc.fn = "encode"
    /\ data = <<61, 214>>
    /\ TrailerOf(stream).crc32 = Some(AllOnes)
    /\ Decoder_decode(stream, Decoder_new, FALSE).l.result.kind = "CrcMismatch"
    /\ d.result = Ok
    /\ sink = <<61, 214>>

\* C6: checksums are optional on input. With validation enabled, when the
\* end line lacks the relevant checksum field (pcrc32 with a part line,
\* crc32 without), decode does not fail with CrcMismatch, whatever the
\* other checksum field holds; and when nothing but the checksum fields was
\* changed it returns Ok with the decoded bytes in the sink.
C6_ChecksumOptional ==
    (/\ phase = "done"
     /\ cfg.validate_crc
     /\ HasTrailer(stream)
     /\ RelevantCrc(stream) = None) =>
        /\ d.result.kind # "CrcMismatch"
        /\ OnlyChecksumsAltered =>
            /\ d.result = Ok
            /\ sink = data
            /\ d.bytes_written = Len(data)

\* a part whose end line has no pcrc32 and a wrong crc32: decoded all the same
C6_Witness ==
    /\ phase = "done"
    /\ cfg.validate_crc
    /\ enc.fn = "encode_part"
    /\ data = <<0, 61>>
    /\ OnlyChecksumsAltered
    /\ TrailerOf(stream).pcrc32 = None
    /\ TrailerOf(stream).crc32 = Some(AllOnes)
    /\ d.result = Ok
    /\ sink = <<0, 61>>

\* C7: multi-part round trip. For every part of a file (begin <= end, the
\* raw unit the bytes begin..end of the file, any line length, with or
\* without checksums), the default decoder returns Ok on what encode_part
\* wrote, writes exactly the raw unit, and returns the header's part, total
\* and size as given, the part line's begin and end as given, the end
\* line's size equal to the unit's length and its part equal to the
\* header's; the decoded parts put together in order are the file.
C7_MultiPartRoundTrip ==
    /\ (phase = "done" /\ enc.fn = "encode_part") =>
        LET info == Unwrap(enc.part_info) IN
        /\ 1 <= info.begin /\ info.begin <= info.end
        /\ info.end - info.begin + 1 = Len(data)
        /\ d.result = Ok
        /\ sink = data
        /\ d.bytes_written = Len(data)
        /\ d.header.part = Some(info.part)
        /\ d.header.total = Some(info.total)
        /\ d.header.size = info.full_size
        /\ d.part_info = Some([begin |-> info.begin, end |-> info.end])
        /\ IsSome(d.trailer)
        /\ Unwrap(d.trailer).size = Len(data)
        /\ Unwrap(d.trailer).part = d.header.part
    /\ assembled = SubSeq(file, 1, Len(assembled))
    /\ phase = "assembled" => assembled = file

\* the second part of a two-byte file, decoded after the first was put in
\* place
C7_Witness ==
    /\ phase = "done"
    /\ enc.fn = "encode_part"
    /\ file = <<214, 61>>
    /\ assembled = <<214>>
    /\ d.header.part = Some(2)
    /\ d.header.total = Some(2)
    /\ d.part_info = Some([begin |-> 2, end |-> 2])
    /\ d.result = Ok
    /\ sink = <<61>>

\* C8: part-size-mismatch detection. Whenever decode has read a part line
\* and reached an end line whose size differs from end - begin + 1, it has
\* failed with InvalidData "Part size mismatch" naming the end line's size
\* and the span, whatever the body and the checksum fields are.
C8_PartSizeMismatch ==
    (/\ phase = "done"
     /\ IsSome(d.part_info)
     /\ HasTrailer(stream)
     /\ TrailerOf(stream).size # Unwrap(d.part_info).end - Unwrap(d.part_info).begin + 1) =>
        /\ d.result.kind = "InvalidData"
        /\ d.result.msg = "Part size mismatch"
        /\ d.result.args = <<TrailerOf(stream).size,
                             Unwrap(d.part_info).end - Unwrap(d.part_info).begin + 1>>

\* decode has returned from an end line, after a begin line with a part
\* number; the end line as the trailer parser reads it
AtEndLineOfPart ==
    /\ phase = "done"
    /\ IsSome(d.header.part)
    /\ IsSome(d.part_info)
    /\ StartsWith(trim_bytes(d.line), YEND)

EndLine == YencTrailer_parse(trim_bytes(d.line))

\* the part field of the end line, None when it has none
EndLinePart == UsizeField(KeyValues(trim_bytes(d.line), 6), K_part)

\* C9: part-number consistency, as the code has it. When the begin line
\* carries a part number and an end line is reached, decode returns Ok only
\* if the end line's part is present and equal to the begin line's; when it
\* is absent or different decode does not return Ok, and the error is
\* InvalidData "Part number mismatch", naming both, when the end line
\* parses and its size equals the span of a part line with begin <= end:
\* the end line's parse and the part size check come first.
C9_PartNumber ==
    AtEndLineOfPart =>
        LET part == Unwrap(d.part_info) IN
        /\ d.result = Ok => EndLinePart = d.header.part
        /\ EndLinePart # d.header.part =>
            /\ d.result.kind \in {"InvalidData", "MissingField", "Panic"}
            /\ (/\ ~IsErr(EndLine.error)
                /\ part.begin <= part.end
                /\ EndLine.value.size = part.end - part.begin + 1) =>
                    d.result = Err("InvalidData", "Part number mismatch",
                                   d.header.part \o EndLinePart)

\* part 1 whose end line says part=2: the mismatch names 1 and 2, after the
\* body was written
C9_Witness ==
    /\ AtEndLineOfPart
    /\ data = <<0, 61>>
    /\ d.header.part = Some(1)
    /\ EndLinePart = Some(2)
    /\ EndLine.value.size = 2
    /\ d.part_info = Some([begin |-> 1, end |-> 2])
    /\ d.result = Err("InvalidData", "Part number mismatch", <<1, 2>>)
    /\ sink = <<0, 61>>

\* C9 as stated: decode succeeds only if the end line's part is present and
\* equal to the begin line's part number, and otherwise fails with
\* InvalidData "Part number mismatch".
C9_AsStated ==
    AtEndLineOfPart =>
        /\ d.result = Ok => EndLinePart = d.header.part
        /\ EndLinePart # d.header.part =>
            /\ d.result.kind = "InvalidData"
            /\ d.result.msg = "Part number mismatch"

\* the begin line of the text as the header parser reads it
BeginLine == YencHeader_parse(trim_bytes(Lines(stream, 1)[1]))

\* C10: a begin line with a part number demands a part line. When decode
\* has returned on a text whose begin line carries a part number and whose
\* next line is not a "=ypart " line, the result is InvalidData and no byte
\* was decoded or written; and decode never returns Ok with a header that
\* has a part number and no part record.
C10_PartLineDemanded ==
    (phase = "done" /\ d.result # Pending) =>
        /\ d.result = Ok => ~(IsSome(d.header.part) /\ d.part_info = None)
        /\ (/\ ~IsErr(BeginLine.error)
            /\ IsSome(BeginLine.value.part)
            /\ Len(Lines(stream, 1)) >= 2
            /\ ~HasPartLine(stream)) =>
                /\ d.result.kind = "InvalidData"
                /\ d.part_info = None
                /\ d.bytes_written = 0
                /\ sink = <<>>

\* the text of part 1 with its part line taken out
C10_Witness ==
    /\ phase = "done"
    /\ enc.fn = "encode_part"
    /\ data = <<0, 61>>
    /\ d.header.part = Some(1)
    /\ ~HasPartLine(stream)
    /\ BodyLines(stream) = <<<<42, 61, 167, 10>>>>
    /\ d.result = Err("InvalidData",
                      "Header indicates multi-part but no =ypart line found", <<>>)
    /\ sink = <<>>

\* the control lines the encoder wrote: what precedes the body, and the end
\* line
ControlHead ==
    LET es == Lines(Encoded, 1)
    IN IF enc.fn = "encode_part" THEN es[1] \o es[2] ELSE es[1]

ControlEnd == LET es == Lines(Encoded, 1) IN es[Len(es)]

\* the text is the control lines around a body, the end line without
\* checksums; the body between them
HasWrittenBody ==
    /\ enc.result = Ok
    /\ ~enc.compute_crc
    /\ TrailerOf(Encoded).crc32 = None
    /\ LET h == ControlHead
           e == NL \o ControlEnd
       IN /\ Len(stream) >= Len(h) + Len(e)
          /\ SubSeq(stream, 1, Len(h)) = h
          /\ SubSeq(stream, Len(stream) - Len(e) + 1, Len(stream)) = e

WrittenBody ==
    SubSeq(stream, Len(ControlHead) + 1, Len(stream) - Len(ControlEnd) - 1)

\* the value the format gives to the pair byte n
Unescaped(n) == (n + 512 - 64 - 42) % 256

\* C11: strict versus lenient escapes. For a body that is '=' followed by
\* a byte n, a strict decoder fails with InvalidData "Invalid escape
\* sequence" exactly when (n - 64 - 42) mod 256 is not one of NUL, TAB, LF,
\* CR, SPACE, '.', '='; a lenient decoder accepts the pair and writes that
\* value, and so does a strict one when it does not fail.
C11_StrictLenient ==
    (/\ phase = "done"
     /\ HasWrittenBody
     /\ Len(WrittenBody) = 2
     /\ WrittenBody[1] = 61) =>
        LET n == WrittenBody[2]
            canonical == Unescaped(n) \in {0, 9, 10, 13, 32, 46, 61}
            invalid == /\ d.result.kind = "InvalidData"
                       /\ d.result.msg = "Invalid escape sequence"
        IN /\ cfg.strict => (invalid <=> ~canonical)
           /\ (~cfg.strict \/ canonical) => (d.result = Ok /\ sink = <<Unescaped(n)>>)

\* no line of the text is an end line
NoEndLine(s) ==
    LET ls == Lines(s, 1)
    IN \A i \in DOMAIN ls : ~StartsWith(trim_bytes(ls[i]), YEND)

\* the text is the control lines before the body followed by a body of at
\* least one byte (a line terminator counts) that stops without an end line
Unterminated ==
    /\ enc.result = Ok
    /\ LET h == ControlHead
       IN /\ Len(stream) > Len(h)
          /\ SubSeq(stream, 1, Len(h)) = h
    /\ NoEndLine(stream)

C13_DanglingEscape ==
    (phase = "done" /\ d.escaped) => d.result # Ok

\* the index of the first line that, trimmed, begins with "=ybegin ": 0 if
\* there is none
RECURSIVE FirstBegin(_, _)
FirstBegin(ls, i) ==
    IF i > Len(ls) THEN 0
    ELSE IF StartsWith(trim_bytes(ls[i]), YBEGIN) THEN i
    ELSE FirstBegin(ls, i + 1)

ParsedLine == trim_bytes(d.line)

ParsedKeys ==
    IF StartsWith(ParsedLine, YBEGIN) THEN KeyValues(ParsedLine, 8)
    ELSE IF StartsWith(ParsedLine, YPART) THEN KeyValues(ParsedLine, 7)
    ELSE KeyValues(ParsedLine, 6)

\* C15: missing required fields. When decode returns MissingField it names
\* a required key (name or size of a begin line, begin or end of a part
\* line, size of an end line) and that key is absent from the line it was
\* parsing; the kind differs from the InvalidHeader of a text without a
\* begin line.
C15_MissingField ==
    (phase = "done" /\ d.result.kind = "MissingField") =>
        /\ d.result.msg \in
            (IF StartsWith(ParsedLine, YBEGIN) THEN {"name", "size"}
             ELSE IF StartsWith(ParsedLine, YPART) THEN {"begin", "end"}
             ELSE IF StartsWith(ParsedLine, YEND) THEN {"size"}
             ELSE {})
        /\ d.result.kind # Err("InvalidHeader", "No header found", <<>>).kind
        /\ LET key == CASE d.result.msg = "name" -> K_name
                        [] d.result.msg = "size" -> K_size
                        [] d.result.msg = "begin" -> K_begin
                        [] OTHER -> K_end
           IN LastOf(ParsedKeys, key) = None

\* the last call was encode_part with an input whose length differs from
\* end - begin + 1 of its MultiPartInfo
SizeMismatchCall ==
    /\ enc.fn = "encode_part"
    /\ Len(data) # Unwrap(enc.part_info).end - Unwrap(enc.part_info).begin + 1

\* C16: encode_part is all-or-nothing on a size mismatch. If the input
\* length differs from end - begin + 1, encode_part returns InvalidData
\* with the message 'Part size mismatch' and nothing has been written.
C16_AllOrNothing ==
    SizeMismatchCall =>
        /\ enc.result.kind = "InvalidData"
        /\ enc.result.msg = "Part size mismatch"
        /\ stream = <<>>

\* the key=value tokens of the end line the encoder wrote, and the text of
\* one of them
EmittedEnd ==
    LET ls == Lines(stream, 1) IN KeyValues(trim_bytes(ls[Len(ls)]), 6)

EmittedField(key) == LastOf(EmittedEnd, key)

\* the checksum of the unit's raw bytes as the end line writes it
UnitCrcText == IF enc.compute_crc THEN Some(ToHex8(Crc32(data))) ELSE None

\* C17: end-line contents of the encoder. The end line always has size
\* equal to the number of raw bytes of the unit and has part exactly when a
\* part was encoded. encode_part writes pcrc32, the checksum of the unit,
\* exactly when checksum computation is enabled, and crc32 exactly when the
\* caller supplied a whole-file checksum. encode writes no pcrc32; it writes
\* the checksum of its input as crc32 exactly when checksum computation is
\* enabled.
C17_EndLineContents ==
    phase = "encoded" =>
        /\ EmittedField(K_size) = Some(ToDec(Len(data)))
        /\ IF enc.fn = "encode_part"
           THEN LET info == Unwrap(enc.part_info) IN
                /\ EmittedField(K_part) = Some(ToDec(info.part))
                /\ EmittedField(K_pcrc32) = UnitCrcText
                /\ EmittedField(K_crc32) =
                     (IF IsSome(info.full_crc)
                      THEN Some(ToHex8(Unwrap(info.full_crc))) ELSE None)
           ELSE /\ EmittedField(K_part) = None
                /\ EmittedField(K_pcrc32) = None
                /\ EmittedField(K_crc32) = UnitCrcText

\* a part written with its checksum and without a whole-file checksum, and
\* a whole file written with its checksum
C17_Witness ==
    /\ phase = "encoded"
    /\ enc.compute_crc
    /\ \/ enc.fn = "encode_part" /\ Unwrap(enc.part_info).full_crc = None
       \/ enc.fn = "encode" /\ Len(data) > 0

\* C17 as the specification states it: pcrc32 whenever checksum computation
\* is enabled and never otherwise, crc32 only when the caller supplies a
\* whole-file checksum
C17_AsStated ==
    phase = "encoded" =>
        /\ EmittedField(K_pcrc32) = UnitCrcText
        /\ EmittedField(K_crc32) # None =>
               (enc.part_info # None /\ IsSome(Unwrap(enc.part_info).full_crc))

\* the text of a checksum field is 8 characters out of 0..9 and a..f
LowerHex8(text) ==
    /\ Len(text) = 8
    /\ \A i \in 1..8 : IsDigit(text[i]) \/ (text[i] >= 97 /\ text[i] <= 102)

\* the whole-file checksum the caller handed to the encoder
GivenCrc == Unwrap(enc.part_info).full_crc

\* C18: checksum text format. Every crc32 and pcrc32 value the encoder
\* writes is 8 lowercase hexadecimal digits, zero-padded, and the end line
\* parses to the value written whether its letters are in lower or in upper
\* case: crc32 to the checksum the caller gave, pcrc32 to the checksum of
\* the part.
C18_ChecksumText ==
    /\ phase = "encoded" =>
        /\ EmittedField(K_crc32) = Some(ToHex8(Unwrap(GivenCrc)))
        /\ LowerHex8(Unwrap(EmittedField(K_crc32)))
        /\ enc.compute_crc => LowerHex8(Unwrap(EmittedField(K_pcrc32)))
    /\ phase = "altered" =>
        /\ EmittedField(K_crc32) = Some(UpperHex(ToHex8(Unwrap(GivenCrc))))
        /\ TrailerOf(stream).crc32 = GivenCrc
    /\ phase = "done" =>
        /\ d.result = Ok
        /\ Unwrap(d.trailer).crc32 = GivenCrc
        /\ Unwrap(d.trailer).pcrc32 = (IF enc.compute_crc THEN Some(Crc32(data)) ELSE None)

\* an end line whose checksums have letters, rewritten in upper case and
\* decoded
C18_Witness ==
    /\ phase = "done"
    /\ enc.compute_crc
    /\ EmittedField(K_crc32) # Some(ToHex8(Unwrap(GivenCrc)))
    /\ EmittedField(K_pcrc32) # Some(ToHex8(Crc32(data)))
    /\ Unwrap(GivenCrc)[1] = 0

\* the octets of a body line before its terminator
Octets(line) ==
    IF line # <<>> /\ line[Len(line)] = 10 THEN SubSeq(line, 1, Len(line) - 1) ELSE line

\* C19: line wrapping bound. Every body line the encoder writes is
\* terminated and not empty; every line but the last holds at least L
\* octets, and no line holds more than L + 1; a line holds L + 1 octets only
\* when the escape marker of a pair stands at column L, the pair being
\* counted after it is written.
C19_LineWrapping ==
    phase = "encoded" =>
        LET bl == BodyLines(stream)
            L == enc.line_length
        IN /\ (bl = <<>>) <=> (data = <<>>)
           /\ \A i \in DOMAIN bl :
                LET o == Octets(bl[i]) IN
                /\ bl[i][Len(bl[i])] = 10
                /\ Len(o) >= 1
                /\ i < Len(bl) => Len(o) >= L
                /\ Len(o) <= L + 1
                /\ Len(o) = L + 1 => o[L] = ESCAPE_CHAR

\* a line of L + 1 octets: one octet, then an escape pair
C19_Witness ==
    /\ phase = "encoded"
    /\ enc.line_length = 2
    /\ Len(data) = 2
    /\ Len(BodyLines(stream)) = 1
    /\ Len(Octets(BodyLines(stream)[1])) = 3

\* C19 as the specification states it: no body line holds more than L octets
C19_AsStated ==
    phase = "encoded" =>
        \A i \in DOMAIN BodyLines(stream) :
            Len(Octets(BodyLines(stream)[i])) <= enc.line_length

\* C20: filename round-trip. Decoding the text encode wrote under a filename
\* succeeds with Header.name equal to that filename, and size, line, part
\* and total are what they are under any other filename.
C20_FilenameRoundTrip ==
    (phase = "done" /\ enc.fn = "encode") =>
        /\ d.result = Ok
        /\ d.header = [name |-> enc.filename, size |-> Len(data),
                       line_len |-> Some(enc.line_length),
                       part |-> None, total |-> None]

\* what a call leaves behind apart from its place in the text
Outcome(l) ==
    [result |-> l.result, header |-> l.header, part_info |-> l.part_info,
     trailer |-> l.trailer, bytes_written |-> l.bytes_written]

\* C21: whitespace tolerance of the metadata codec. A begin, part or end
\* line with leading or trailing space, tab, CR or LF parses to the same
\* record as the stripped line, when the text is read through decode and
\* when the line is passed to YencHeader::parse, YencPart::parse or
\* YencTrailer::parse.
C21_WhitespaceTolerance ==
    /\ phase = "parsed" =>
          Outcome(d) = Outcome(ParseControl(d.line, trim_bytes(d.line)))
    /\ (phase = "done" /\ enc.result = Ok) =>
          \E oc \in StepBuilds :
              Outcome(d) = Outcome(Decoder_decode(Encoded, cfg, oc).l)

\* everything the body of the text decodes to when no escape pair is refused
\* and no check is made at the end line
WholeBody ==
    Decoder_decode(stream, [strict |-> FALSE, validate_crc |-> FALSE], FALSE).out

IsPrefix(p, q) == Len(p) <= Len(q) /\ SubSeq(q, 1, Len(p)) = p

\* the line decode was reading when it returned is the end line
FailedAtEndLine == StartsWith(trim_bytes(d.line), YEND)

\* decode returned before it reached the body loop
FailedBeforeBody ==
    \/ d.result.kind = "InvalidHeader"
    \/ d.result.kind = "MissingField" /\ ~FailedAtEndLine
    \/ d.result.msg \in {"No data found", "No data found after part line",
                         "Invalid part line",
                         "Header indicates multi-part but no =ypart line found"}

\* C22: errors short-circuit without retracting output. When decode fails
\* the sink holds the bytes decoded before the failing point, in order, as
\* many as bytes_written counts: none for a failure before the body, the
\* bytes before the refused pair for a strict-mode escape failure, the whole
\* decoded body for a failure at the end line or at the end of the text.
C22_ErrorsKeepOutput ==
    (phase = "done" /\ IsErr(d.result)) =>
        /\ Len(sink) = d.bytes_written
        /\ IF FailedBeforeBody THEN sink = <<>>
           ELSE LET whole == WholeBody IN
                IF d.result.msg = "Invalid escape sequence"
                THEN /\ IsPrefix(sink \o <<Unescaped(d.result.args[1])>>, whole)
                     /\ cfg.strict
                ELSE sink = whole

\* a strict-mode escape failure after a byte was written
C22_Witness ==
    /\ phase = "done"
    /\ d.result.msg = "Invalid escape sequence"
    /\ Len(sink) = 1

\* the control lines of the text being decoded, parsed
StreamLines == Lines(stream, 1)
StreamPart == YencPart_parse(trim_bytes(StreamLines[2]))
StreamTrailer == YencTrailer_parse(trim_bytes(StreamLines[Len(StreamLines)])).value
StreamEndKeys == KeyValues(trim_bytes(StreamLines[Len(StreamLines)]), 6)

\* the text has its three kinds of line in place and what C23 asks of them:
\* the end-line size equals the part span end - begin + 1 or there is no
\* part line, the part numbers agree, validation is disabled or the
\* relevant checksum field is absent
SizesAdmitted ==
    /\ enc.result = Ok
    /\ Len(StreamLines) >= 3
    /\ YencHeader_parse(trim_bytes(StreamLines[1])).error = Ok
    /\ YencTrailer_parse(trim_bytes(StreamLines[Len(StreamLines)])).error = Ok
    /\ LET header == YencHeader_parse(trim_bytes(StreamLines[1])).value
           has_part == StartsWith(trim_bytes(StreamLines[2]), YPART)
       IN /\ has_part => /\ StreamPart.error = Ok
                         /\ StreamTrailer.size =
                                StreamPart.value.end - StreamPart.value.begin + 1
                         /\ Len(StreamLines) >= 4
          /\ IsSome(header.part) => (has_part /\ StreamTrailer.part = header.part)
          /\ \/ ~cfg.validate_crc
             \/ LastOf(StreamEndKeys, IF has_part THEN K_pcrc32 ELSE K_crc32) = None

\* C23: declared sizes are not compared with the decoded byte count. The
\* returned bytes_written is the number of bytes written to the sink, and a
\* text whose end-line size and begin-line size differ from that count
\* decodes successfully when the end-line size equals the part span or there
\* is no part line, the part numbers agree, and validation is disabled or
\* the checksum field is absent.
C23_SizesNotCompared ==
    phase = "done" =>
        /\ d.bytes_written = Len(sink)
        /\ SizesAdmitted => d.result = Ok

\* the bytes of a body text that are neither escape marker nor line
\* terminator
NonMarkers(body) == SelectSeq(body, LAMBDA b : b # ESCAPE_CHAR /\ b # 10)

\* C24: every body byte is consumed in order. Every byte of a body line
\* other than the line terminator is an escape marker or yields one decoded
\* byte, so bytes_written is the number of non-marker bytes of the body
\* lines; leading and trailing space or tab bytes of a line are decoded like
\* interior ones.
C24_EveryByteConsumed ==
    (/\ phase = "done"
     /\ HasWrittenBody
     /\ ~cfg.strict
     /\ d.result = Ok) =>
        /\ d.bytes_written = Len(NonMarkers(WrittenBody))
        /\ Len(sink) = Len(NonMarkers(WrittenBody))

\* C25: lenient un-escaping is total. In lenient mode every byte value n
\* that follows an escape marker in the body is consumed as the pair byte:
\* one byte (n - 64 - 42) mod 256 is written and the escape state is
\* cleared, for n = '=' as for any other value, so a plain byte after the
\* pair is decoded on its own.
C25_LenientTotal ==
    (/\ phase = "done"
     /\ HasWrittenBody
     /\ ~cfg.strict
     /\ Len(WrittenBody) \in {2, 3}
     /\ WrittenBody[1] = ESCAPE_CHAR
     /\ Len(WrittenBody) = 3 => WrittenBody[3] = 42) =>
        /\ d.result = Ok
        /\ ~d.escaped
        /\ sink = <<Unescaped(WrittenBody[2])>>
                    \o (IF Len(WrittenBody) = 3 THEN <<decode_byte(42)>> ELSE <<>>)

\* the first line from the i-th on that begins with "=yend " once trimmed,
\* 0 if there is none
RECURSIVE FirstEnd(_, _)
FirstEnd(ls, i) ==
    IF i > Len(ls) THEN 0
    ELSE IF StartsWith(trim_bytes(ls[i]), YEND) THEN i
    ELSE FirstEnd(ls, i + 1)

\* the lines from i to j read as body data one after the other, in lenient
\* mode: [escaped, crc_hasher, out, error]
RECURSIVE DataOf(_, _, _, _)
DataOf(ls, i, j, st) ==
    IF i > j THEN st
    ELSE DataOf(ls, i + 1, j, DecodeBytes(trim_bytes(ls[i]), st, FALSE))

\* the text has a part line: the line right after the begin line starts
\* with "=ypart "
SecondIsPart == StartsWith(trim_bytes(StreamLines[2]), YPART)

\* the first data line, and the first end line from there on
BodyFrom == IF SecondIsPart THEN 3 ELSE 2
BodyTo == FirstEnd(StreamLines, BodyFrom)

\* C26: decoder framing. A "=ypart " line is taken as part line only when
\* it is the line read right after the begin line; later lines that start
\* with "=ypart " or "=ybegin " are decoded as body data; decoding ends at
\* the first line that begins with "=yend " once trimmed, and nothing after
\* that line is read, written to the sink or fed to the checksum.
C26_Framing ==
    phase = "done" =>
        LET ls == StreamLines
            to == BodyTo
            ref == DataOf(ls, BodyFrom, to - 1,
                          [escaped |-> FALSE, crc_hasher |-> Some(HasherNew),
                           out |-> <<>>, error |-> Ok])
        IN /\ to > 0
           /\ IsSome(d.part_info) <=> SecondIsPart
           /\ d.line = ls[to]
           /\ d.pos = 1 + Len(Concat(SubSeq(ls, 1, to)))
           /\ sink = ref.out
           /\ d.bytes_written = Len(ref.out)
           /\ IsSome(d.crc_hasher) => d.crc_hasher = ref.crc_hasher

\* a text decoded to Ok with a part line and a begin line among its body
\* lines and more text after its end line
C26_Witness ==
    /\ phase = "done"
    /\ d.result = Ok
    /\ BodyTo < Len(StreamLines)
    /\ \E i \in (BodyFrom + 1)..(BodyTo - 1) :
          \/ StartsWith(StreamLines[i], YPART)
          \/ StartsWith(StreamLines[i], YBEGIN)

\* C27: strict-mode round-trip. For every byte sequence B the strict decoder
\* decodes the output of encode(B) successfully to B: every escape pair the
\* encoder writes is one strict mode accepts.
C27_StrictRoundTrip ==
    (phase = "done" /\ enc.fn = "encode" /\ cfg.strict) =>
        /\ d.result = Ok
        /\ sink = file
        /\ d.bytes_written = Len(file)

\* the lines the encoder wrote between its control lines, by their place in
\* the text
EmittedBody ==
    LET ls == Lines(stream, 1)
    IN SubSeq(ls, (IF enc.fn = "encode_part" THEN 3 ELSE 2), Len(ls) - 1)

\* the second bytes of the escape pairs: a critical encoded byte or the
\* encoded '=' plus ESCAPE_OFFSET
PairBytes ==
    {Wrap8(c + ESCAPE_OFFSET) : c \in Range(ESCAPING_CHARS)}
        \cup {Wrap8(encode_byte(ESCAPE_CHAR) + ESCAPE_OFFSET)}

\* C28: encoder output is transport-safe. Every body line encode and
\* encode_part write is non-empty, holds none of NUL, TAB, LF, CR, SPACE and
\* '.' before its terminator, holds '=' only as the first byte of an escape
\* pair whose second byte is on the same line, and does not begin with
\* "=ybegin ", "=ypart " or "=yend ".
C28_TransportSafe ==
    phase = "encoded" =>
        \A i \in DOMAIN EmittedBody :
            LET o == Octets(EmittedBody[i]) IN
            /\ Len(o) >= 1
            /\ \A k \in DOMAIN o :
                /\ o[k] \notin {0, 9, 10, 13, 32, 46}
                /\ o[k] = ESCAPE_CHAR =>
                      (k < Len(o) /\ o[k + 1] \in PairBytes)
            /\ ~StartsWith(o, YBEGIN)
            /\ ~StartsWith(o, YPART)
            /\ ~StartsWith(o, YEND)

\* two body lines of one escape pair each
C28_Witness ==
    /\ phase = "encoded"
    /\ enc.line_length = 1
    /\ Len(EmittedBody) = 2
    /\ EmittedBody[1][1] = ESCAPE_CHAR
    /\ EmittedBody[2][1] = ESCAPE_CHAR

\* a call that ended returned Ok or a YencError value
Returned(result) ==
    result.kind \in {"Ok", "InvalidHeader", "InvalidData", "MissingField", "CrcMismatch"}

\* C29: part-span arithmetic never underflows. For every begin and end a
\* part line or a MultiPartInfo carries, end < begin included, encode_part
\* and decode return Ok or a YencError value and never abort.
C29_NoUnderflow ==
    /\ enc.fn = "encode_part" => Returned(enc.result)
    /\ phase = "done" /\ enc.result = Ok => Returned(d.result)

\* the text of the relevant checksum key of the end line: pcrc32 when the
\* text has a part line, crc32 otherwise; None when the key is not there
RelevantCrcText ==
    LastOf(StreamEndKeys, IF IsSome(d.part_info) THEN K_pcrc32 ELSE K_crc32)

\* C30: a present checksum key is always enforced. With validation enabled,
\* when the end line has the relevant key (pcrc32 for a text with a part
\* line, crc32 otherwise), decode succeeds only if the value of that key
\* denotes the checksum of the decoded bytes; a value that is not valid
\* 32-bit hexadecimal does not count as an absent checksum.
C30_PresentKeyEnforced ==
    (/\ phase = "done"
     /\ cfg.validate_crc
     /\ d.result = Ok
     /\ IsSome(d.trailer)
     /\ RelevantCrcText # None) =>
        ParseHex32(Unwrap(RelevantCrcText)) = Some(Crc32(sink))

=============================================================================
